---- MODULE Spec2Model ----
(***************************************************************************)
(* Model of the LaTeX pipeline of the repository:                           *)
(*   - sanitizeLatex      (the PDF handler's sanitizer)                      *)
(*   - parseQuestions     (LatexPreview's question extraction)               *)
(*                                                                           *)
(* Text is a sequence of tokens.  A token is one character ("_", "$",       *)
(* "\\", "\n", ...) or an indivisible word of letters ("textbf", "verb",    *)
(* "MATHBLOCK", ...) or, in generated output, a number ("0.6").  The        *)
(* regular expressions of the source are written as syntax trees over       *)
(* tokens and run by a backtracking matcher with the priority order of the  *)
(* JavaScript engine (greedy / lazy quantifiers, ordered alternation,       *)
(* lookahead, lookbehind, captures).                                        *)
(***************************************************************************)
EXTENDS Integers, Sequences, FiniteSets, TLC

VARIABLES
  latex,            \* the handler's req.body.latex: input of sanitizeLatex
  sanitized,        \* sanitizeLatex(latex)
  resanitized,      \* sanitizeLatex(sanitizeLatex(latex))
  sanPc,            \* "idle" | "input" | "sanitized" | "resanitized"
  warnings,         \* the calls of console.warn by sanitizeLatex: brace counts
  content,          \* LatexPreview's content prop
  questionsContent, \* parseQuestions' questionsContent
  patternIdx,       \* index in patterns of the last strategy tried, 0 at first
  parsedQuestions,  \* parseQuestions' parsedQuestions
  accepted,         \* history: per strategy tried, its matches that passed the filters
  raised,           \* an exception left parseQuestions
  questions,        \* the component's questions state
  extPc,            \* "idle" | "start" | "narrowed" | "cascade" | "found" | "done"
  fragment,         \* formatContent's parameter: a question or solution text
  formatted,        \* formatContent's result
  fmtPc,            \* "idle" | "input" | "done"
  method,           \* the handler's req.method
  includeSolutions, \* req.body.includeSolutions
  processedLatex,   \* the handler's processedLatex
  texFile,          \* the content of questions.tex
  passes,           \* the outcomes of the pdflatex runs so far
  pdfFile,          \* questions.pdf exists
  logFile,          \* the content of questions.log
  errorMsg,         \* the message of the Error thrown at line 257
  response,         \* the status and the error text of the answer
  sent,             \* the number of answers sent through res
  tempDir,          \* the handler's tempDir: "null" or the "path" of mkdtempSync
  dirExists,        \* the directory of mkdtempSync is on the disk
  hdlPc,            \* "idle" | "request" | "which" | "pass1" | "pass2" | "done"
  uploadMethod,     \* the upload handler's req.method
  files,            \* the fields of the form that hold a file: file, patternFile
  uploadDir,        \* the files of the request that are in the uploads directory
  pdfText,          \* the text of the content file
  patternText,      \* the text of the pattern file, or Undefined
  latexContent,     \* the latex of the answer 200
  uploadResponse,   \* the status and the error text of the upload handler's answer
  uploadPc,         \* "idle" | "request" | "extract" | "pattern" | "generate" | "done"
  visibleSolutions, \* LatexPreview's visibleSolutions state: a set of numbers
  config,           \* QuestionCustomizer's config prop, the state of its parent
  clicked           \* the last click on QuestionCustomizer: handler and arguments

sanVars == <<latex, sanitized, resanitized, sanPc, warnings>>
extVars == <<content, questionsContent, patternIdx, parsedQuestions, accepted,
             raised, questions, extPc>>
fmtVars == <<fragment, formatted, fmtPc>>
hdlVars == <<method, includeSolutions, processedLatex, texFile, passes, pdfFile,
             logFile, errorMsg, response, sent, tempDir, dirExists, hdlPc>>
uplVars == <<uploadMethod, files, uploadDir, pdfText, patternText, latexContent,
             uploadResponse, uploadPc>>
visVars == <<visibleSolutions>>
cfgVars == <<config, clicked>>
auxVars == <<uplVars, visVars, cfgVars>>
vars == <<sanVars, extVars, fmtVars, hdlVars, auxVars>>

(***************************************************************************)
(* Regular expressions: syntax trees                                        *)
(***************************************************************************)
Lit(c) == [t |-> "lit", c |-> c]
In(S) == [t |-> "in", S |-> S]
NotIn(S) == [t |-> "notin", S |-> S]
Cat(rs) == [t |-> "cat", rs |-> rs]
Alt(rs) == [t |-> "alt", rs |-> rs]
Rep(r, lo, hi, g) == [t |-> "rep", r |-> r, lo |-> lo, hi |-> hi, g |-> g]
Grp(n, r) == [t |-> "grp", n |-> n, r |-> r]
La(r) == [t |-> "la", r |-> r]
Nla(r) == [t |-> "nla", r |-> r]
Nlb(c) == [t |-> "nlb", c |-> c]
\* ([^a-zA-Z])(.+?)\1 : a delimiter that is no letter, captured as group 1,
\* the shortest non-empty text without a newline up to the same delimiter
\* again, captured as group 2
Delimited == [t |-> "delim"]
\* [\s\S]{0,hi}: at most hi characters
Span(hi) == [t |-> "span", hi |-> hi]
Bol == [t |-> "bol"]
Eol == [t |-> "eol"]
Eos == [t |-> "eos"]

\* a literal string, token by token
Str(w) == [t |-> "str", w |-> w]
\* the same under the /i flag; w is given in lower case
IStr(w) == [t |-> "istr", w |-> w]
\* r*  r+  r?  (greedy)  and  r*?  r+?  (lazy); hi = -1 is "no upper bound"
Star(r) == Rep(r, 0, -1, TRUE)
Plus(r) == Rep(r, 1, -1, TRUE)
Opt(r) == Rep(r, 0, 1, TRUE)
LazyStar(r) == Rep(r, 0, -1, FALSE)

\* character classes
Space == {" ", "\n", "\t"}
Digits == {"0", "1", "2", "3", "4", "5", "6", "7", "8", "9"}
\* the words of letters: a word is one token
Letters ==
  {"a", "b", "i", "x", "s", "Q", "verb", "textbf", "textit", "begin", "end",
   "enumerate", "label", "alph", "roman", "arabic", "underline", "hspace",
   "cm", "Name", "MATHBLOCK", "VERBBLOCK", "LATEXCOMMENT",
   "noindent", "hfill", "rule", "vspace", "section", "subsection", "item",
   "document", "documentclass", "article", "tabular", "Question", "Questions",
   "QUESTIONS", "questions", "SECTION", "Section", "BEGIN", "Solution", "Ans",
   "wer", "ans", "any", "mark", "Mark", "General", "Instructions", "general",
   "instructions", "to", "candidates", "Examination", "Paper", "examination",
   "paper", "Duration", "Maximum", "duration", "maximum", "Explain", "gravity",
   "Define", "mass", "It", "falls", "ab", "apply", "List", "the", "all", "q",
   "solution", "question", "explain", "define", "it", "list", "name"}
AnyTok == NotIn({})           \* [\s\S]

\* String.prototype.toLowerCase, token by token
Lower(t) ==
  CASE t = "Q" -> "q"
    [] t \in {"Question"} -> "question"
    [] t \in {"Questions", "QUESTIONS"} -> "questions"
    [] t \in {"SECTION", "Section"} -> "section"
    [] t = "BEGIN" -> "begin"
    [] t = "Solution" -> "solution"
    [] t = "Ans" -> "ans"
    [] t = "Mark" -> "mark"
    [] t = "General" -> "general"
    [] t = "Instructions" -> "instructions"
    [] t = "Examination" -> "examination"
    [] t = "Paper" -> "paper"
    [] t = "Duration" -> "duration"
    [] t = "Maximum" -> "maximum"
    [] t = "Explain" -> "explain"
    [] t = "Define" -> "define"
    [] t = "It" -> "it"
    [] t = "List" -> "list"
    [] t = "Name" -> "name"
    [] t = "MATHBLOCK" -> "mathblock"
    [] t = "VERBBLOCK" -> "verbblock"
    [] t = "LATEXCOMMENT" -> "latexcomment"
    [] OTHER -> t

(***************************************************************************)
(* The matcher.  A backtracking engine returns the first complete match in  *)
(* its priority order: at every choice (an alternative, one more or one     *)
(* fewer iteration) it takes the first option from which the rest of the    *)
(* pattern can still succeed.  Ends(r, s, i) is the set of positions where  *)
(* a match of r that starts at i can end; Pick(r, s, i, K, caps) is the     *)
(* match the engine prefers among those that end in K, the positions from   *)
(* which the rest of the pattern succeeds.  A capture is <<start, end>>     *)
(* (end exclusive), <<0, 0>> when the group did not take part.  Positions    *)
(* start at 1: the tests "p.e = 0" and "Len(s) < 0" below never succeed,    *)
(* they only make the evaluator compute one step before it descends into    *)
(* the next.                                                                *)
(***************************************************************************)
Fail == [ok |-> FALSE, st |-> 0, e |-> 0, caps |-> <<>>]
NoCaps == [n \in 1..3 |-> <<0, 0>>]
Sub(s, a, b) == SubSeq(s, a, b - 1)
Max(S) == CHOOSE x \in S : \A y \in S : y <= x
Min(S) == CHOOSE x \in S : \A y \in S : x <= y

\* A unit is a pattern of fixed width without alternatives: one token, a
\* token class or a literal string, possibly inside one capture group.
Core(r) == IF r.t = "grp" THEN r.r ELSE r
IsUnit(r) == Core(r).t \in {"lit", "in", "notin", "str", "istr"}
Width(r) == IF Core(r).t \in {"str", "istr"} THEN Len(Core(r).w) ELSE 1
UnitAt(r, s, p) ==
  LET c == Core(r)
  IN CASE c.t = "lit" -> p <= Len(s) /\ s[p] = c.c
       [] c.t = "in" -> p <= Len(s) /\ s[p] \in c.S
       [] c.t = "notin" -> p <= Len(s) /\ s[p] \notin c.S
       [] c.t = "str" -> p + Len(c.w) <= Len(s) + 1 /\ Sub(s, p, p + Len(c.w)) = c.w
       [] c.t = "istr" ->
            /\ p + Len(c.w) <= Len(s) + 1
            /\ \A q \in 1..Len(c.w) : Lower(s[p + q - 1]) = c.w[q]
\* the longest run of at most hi units from position i (hi = -1: unbounded)
RunOf(r, s, i, hi) ==
  LET w == Width(r)
      room == (Len(s) + 1 - i) \div w
      cap == IF hi >= 0 /\ hi < room THEN hi ELSE room
  IN CHOOSE c \in 0..cap :
       /\ \A q \in 0..(c - 1) : UnitAt(r, s, i + q * w)
       /\ c = cap \/ ~UnitAt(r, s, i + c * w)
\* the captures after c iterations of a unit that started at i
CapsAfter(r, caps, i, c) ==
  IF r.t = "grp" /\ c > 0
  THEN [caps EXCEPT ![r.n] = <<i + (c - 1) * Width(r), i + c * Width(r)>>]
  ELSE caps
\* the number of characters of the tokens s[a..b-1]
CharLen(s, a, b) ==
  Cardinality(UNION {{<<k, j>> : j \in 1..Len(s[k])} : k \in a..(b - 1)})

RECURSIVE Ends(_, _, _), CatEnds(_, _, _, _), RepEnds(_, _, _, _)
Ends(r, s, i) ==
  CASE IsUnit(r) -> IF UnitAt(r, s, i) THEN {i + Width(r)} ELSE {}
    [] r.t = "grp" /\ ~IsUnit(r) -> Ends(r.r, s, i)
    [] r.t = "cat" -> CatEnds(r.rs, s, 1, {i})
    [] r.t = "alt" -> UNION {Ends(r.rs[k], s, i) : k \in 1..Len(r.rs)}
    [] r.t = "rep" /\ IsUnit(r.r) ->
         {i + c * Width(r.r) : c \in r.lo..RunOf(r.r, s, i, r.hi)}
    [] r.t = "rep" /\ ~IsUnit(r.r) -> RepEnds(r, s, {i}, 0)
    [] r.t = "span" ->
         {e \in i..(Len(s) + 1) : CharLen(s, i, e) <= r.hi}
    [] r.t = "delim" ->
         IF i <= Len(s) /\ s[i] \notin Letters
         THEN {e \in (i + 3)..(Len(s) + 1) :
                 s[e - 1] = s[i] /\ \A q \in (i + 1)..(e - 2) : s[q] # "\n"}
         ELSE {}
    [] r.t = "la" -> IF Ends(r.r, s, i) # {} THEN {i} ELSE {}
    [] r.t = "nla" -> IF Ends(r.r, s, i) = {} THEN {i} ELSE {}
    [] r.t = "nlb" -> IF i > 1 /\ s[i - 1] = r.c THEN {} ELSE {i}
    [] r.t = "bol" -> IF i = 1 \/ s[i - 1] = "\n" THEN {i} ELSE {}
    [] r.t = "eol" -> IF i = Len(s) + 1 \/ s[i] = "\n" THEN {i} ELSE {}
    [] r.t = "eos" -> IF i = Len(s) + 1 THEN {i} ELSE {}
\* where rs[j], rs[j+1], ... in sequence can end when started anywhere in E
CatEnds(rs, s, j, E) ==
  IF j > Len(rs) \/ E = {} THEN E
  ELSE CatEnds(rs, s, j + 1, UNION {Ends(rs[j], s, e) : e \in E})
\* where the iterations of r can end when c of them have ended anywhere in
\* E; an iteration beyond the minimum must consume something
RepEnds(r, s, E, c) ==
  LET done == IF c >= r.lo THEN E ELSE {}
      step == UNION {Ends(r.r, s, e) \ (IF c >= r.lo THEN {e} ELSE {}) : e \in E}
  IN IF c = r.hi \/ E = {} THEN done ELSE done \cup RepEnds(r, s, step, c + 1)

\* the first alternative of r with a match from i that ends in K
FirstAlt(r, s, i, K) ==
  LET Ok(a) == \E e \in Ends(r.rs[a], s, i) : e \in K
  IN CHOOSE a \in 1..Len(r.rs) : Ok(a) /\ \A b \in 1..(a - 1) : ~Ok(b)
\* the first number of iterations of the unit r.r, at most most, that ends
\* in K: the largest when r is greedy, the smallest when it is lazy
FirstCount(r, i, K, most) ==
  LET Ok(c) == (i + c * Width(r.r)) \in K
  IN IF r.g THEN Max({c \in r.lo..most : Ok(c)}) ELSE Min({c \in r.lo..most : Ok(c)})
\* the largest (the smallest) of the ends E that is in K
FirstEnd(E, K, largest) == IF largest THEN Max(E \cap K) ELSE Min(E \cap K)
\* c iterations of the unit r from i
Iterated(r, i, caps, c) == [e |-> i + c * Width(r), caps |-> CapsAfter(r, caps, i, c)]
\* the match of the group r from the match p of its body that started at i
Captured(r, i, p) == [e |-> p.e, caps |-> [p.caps EXCEPT ![r.n] = <<i, p.e>>]]
\* \verb: group 1 is the delimiter, group 2 the text up to its next occurrence
DelimitedTo(i, caps, e) ==
  [e |-> e, caps |-> [caps EXCEPT ![1] = <<i, i + 1>>, ![2] = <<i + 1, e - 1>>]]

RECURSIVE Pick(_, _, _, _, _), CatPick(_, _, _, _, _, _), CatNext(_, _, _, _, _),
          RepPick(_, _, _, _, _, _), RepChoose(_, _, _, _, _, _, _), RepNext(_, _, _, _, _)
Pick(r, s, i, K, caps) ==
  CASE IsUnit(r) -> Iterated(r, i, caps, 1)
    [] r.t = "grp" /\ ~IsUnit(r) -> Captured(r, i, Pick(r.r, s, i, K, caps))
    [] r.t = "cat" -> CatPick(r.rs, s, 1, i, K, caps)
    [] r.t = "alt" -> Pick(r.rs[FirstAlt(r, s, i, K)], s, i, K, caps)
    [] r.t = "rep" /\ IsUnit(r.r) ->
         Iterated(r.r, i, caps, FirstCount(r, i, K, RunOf(r.r, s, i, r.hi)))
    [] r.t = "rep" /\ ~IsUnit(r.r) -> RepPick(r, s, i, K, caps, 0)
    [] r.t = "span" -> [e |-> FirstEnd(Ends(r, s, i), K, TRUE), caps |-> caps]
    [] r.t = "delim" -> DelimitedTo(i, caps, FirstEnd(Ends(r, s, i), K, FALSE))
    [] OTHER -> [e |-> i, caps |-> caps]
\* rs[j] takes its preferred match among those from whose end the rest of
\* the sequence can end in K
CatPick(rs, s, j, i, K, caps) ==
  IF j > Len(rs) THEN [e |-> i, caps |-> caps]
  ELSE CatNext(rs, s, j, K,
         Pick(rs[j], s, i,
              {p \in Ends(rs[j], s, i) : \E e \in CatEnds(rs, s, j + 1, {p}) : e \in K},
              caps))
CatNext(rs, s, j, K, p) ==
  IF p.e = 0 THEN p ELSE CatPick(rs, s, j + 1, p.e, K, p.caps)
\* after c iterations: a greedy quantifier iterates once more when that can
\* still end in K, a lazy one when stopping here cannot
RepPick(r, s, i, K, caps, c) ==
  RepChoose(r, s, i, K, caps, c,
    IF c = r.hi THEN {}
    ELSE {p \in Ends(r.r, s, i) \ (IF c >= r.lo THEN {i} ELSE {}) :
            \E e \in RepEnds(r, s, {p}, c + 1) : e \in K})
RepChoose(r, s, i, K, caps, c, Kmore) ==
  IF (IF r.g THEN Kmore # {} ELSE ~(c >= r.lo /\ i \in K))
  THEN RepNext(r, s, K, c, Pick(r.r, s, i, Kmore, caps))
  ELSE [e |-> i, caps |-> caps]
RepNext(r, s, K, c, p) ==
  IF p.e = 0 THEN p ELSE RepPick(r, s, p.e, K, p.caps, c + 1)

\* the leftmost position from lastIndex = from on where re matches, 0 when
\* there is none
FirstStart(re, s, from) ==
  LET Hit(i) == Ends(re, s, i) # {}
  IN IF \E i \in from..(Len(s) + 1) : Hit(i)
     THEN CHOOSE i \in from..(Len(s) + 1) : Hit(i) /\ \A j \in from..(i - 1) : ~Hit(j)
     ELSE 0
Matched(st, p) == [ok |-> TRUE, st |-> st, e |-> p.e, caps |-> p.caps]
ExecAt(re, s, st) ==
  IF st = 0 THEN Fail ELSE Matched(st, Pick(re, s, st, 1..(Len(s) + 1), NoCaps))
\* RegExp.prototype.exec from lastIndex = from: the leftmost match
Exec(re, s, from) == ExecAt(re, s, FirstStart(re, s, from))

\* all matches of a /g regular expression, left to right, not overlapping:
\* after an empty match the search goes on one position further
RECURSIVE Matches(_, _, _), MatchesAfter(_, _, _)
Matches(re, s, from) == MatchesAfter(re, s, Exec(re, s, from))
MatchesAfter(re, s, m) ==
  IF ~m.ok THEN <<>>
  ELSE <<m>> \o Matches(re, s, IF m.e = m.st THEN m.e + 1 ELSE m.e)

\* s with the k-th match of ms replaced by reps[k]
RECURSIVE Splice(_, _, _, _, _)
Splice(s, ms, reps, k, from) ==
  IF k > Len(ms) THEN Sub(s, from, Len(s) + 1)
  ELSE Sub(s, from, ms[k].st) \o reps[k] \o Splice(s, ms, reps, k + 1, ms[k].e)

\* String.prototype.replace(/re/g, 'literal') for a replacement without $
SpliceAll(s, ms, rep) == Splice(s, ms, [k \in 1..Len(ms) |-> rep], 1, 1)
ReplaceAll(s, re, rep) ==
  IF Len(s) < 0 THEN s ELSE SpliceAll(s, Matches(re, s, 1), rep)

\* String.prototype.indexOf, 1-based; 0 when absent
IndexOf(s, w, from) ==
  LET hits == {i \in from..(Len(s) + 1 - Len(w)) : Sub(s, i, i + Len(w)) = w}
  IN IF hits = {} THEN 0 ELSE Min(hits)

\* GetSubstitution for a string pattern (no captures): "$$", "$&", "$" with
\* a back quote and "$" with a quote are special in the replacement text,
\* every other "$" is literal.  BackTick is the token of the back quote.
BackTick == "BACKTICK"
RECURSIVE Substitution(_, _, _, _, _)
Substitution(rep, k, s, st, e) ==
  IF k > Len(rep) THEN <<>>
  ELSE IF rep[k] = "$" /\ k < Len(rep) /\ rep[k + 1] = "$"
    THEN <<"$">> \o Substitution(rep, k + 2, s, st, e)
  ELSE IF rep[k] = "$" /\ k < Len(rep) /\ rep[k + 1] = "&"
    THEN Sub(s, st, e) \o Substitution(rep, k + 2, s, st, e)
  ELSE IF rep[k] = "$" /\ k < Len(rep) /\ rep[k + 1] = BackTick
    THEN Sub(s, 1, st) \o Substitution(rep, k + 2, s, st, e)
  ELSE IF rep[k] = "$" /\ k < Len(rep) /\ rep[k + 1] = "'"
    THEN Sub(s, e, Len(s) + 1) \o Substitution(rep, k + 2, s, st, e)
  ELSE <<rep[k]>> \o Substitution(rep, k + 1, s, st, e)

\* String.prototype.replace('pattern', 'replacement'): the first occurrence
ReplaceFirstStr(s, pat, rep) ==
  LET st == IndexOf(s, pat, 1)
  IN IF st = 0 THEN s
     ELSE Sub(s, 1, st) \o Substitution(rep, 1, s, st, st + Len(pat))
          \o Sub(s, st + Len(pat), Len(s) + 1)

\* the decimal digits of a counter, as a template literal prints it
DigitOf == [d \in 0..9 |-> CASE d = 0 -> "0" [] d = 1 -> "1" [] d = 2 -> "2"
                             [] d = 3 -> "3" [] d = 4 -> "4" [] d = 5 -> "5"
                             [] d = 6 -> "6" [] d = 7 -> "7" [] d = 8 -> "8"
                             [] d = 9 -> "9"]
RECURSIVE NumStr(_)
NumStr(n) == IF n < 10 THEN <<DigitOf[n]>> ELSE NumStr(n \div 10) \o <<DigitOf[n % 10]>>

(***************************************************************************)
(* sanitizeLatex                                                            *)
(***************************************************************************)
BeginEnumerate == <<"\\", "begin", "{", "enumerate", "}">>
ReEnumParenA == Str(BeginEnumerate \o <<"[", "(", "a", ")", "]">>)
ReEnumParenI == Str(BeginEnumerate \o <<"[", "(", "i", ")", "]">>)
ReEnumParen1 == Str(BeginEnumerate \o <<"[", "(", "1", ")", "]">>)
ReEnumA == Str(BeginEnumerate \o <<"[", "a", ")", "]">>)
ReEnum1 == Str(BeginEnumerate \o <<"[", "1", ")", "]">>)
LabelOpt(open, name, close) ==
  BeginEnumerate \o <<"[", "label", "=">> \o open \o <<"\\", name, "*">> \o close \o <<"]">>

\* lines 15-19: legacy enumerate options
FixEnumerate(s) ==
  LET s1 == ReplaceAll(s, ReEnumParenA, LabelOpt(<<"(">>, "alph", <<")">>))
      s2 == ReplaceAll(s1, ReEnumParenI, LabelOpt(<<"(">>, "roman", <<")">>))
      s3 == ReplaceAll(s2, ReEnumParen1, LabelOpt(<<"(">>, "arabic", <<")">>))
      s4 == ReplaceAll(s3, ReEnumA, LabelOpt(<<>>, "alph", <<")">>))
  IN ReplaceAll(s4, ReEnum1, LabelOpt(<<>>, "arabic", <<")">>))

\* /\$([^$]+)\$/g
ReInlineMath == Cat(<<Lit("$"), Grp(1, Plus(NotIn({"$"}))), Lit("$")>>)
\* /\\\[([^\]]+)\\\]/g
ReDisplayMath ==
  Cat(<<Lit("\\"), Lit("["), Grp(1, Plus(NotIn({"]"}))), Lit("\\"), Lit("]")>>)
\* /\$\$([\s\S]+?)\$\$/g
ReDollarMath == Cat(<<Lit("$"), Lit("$"), Grp(1, Rep(AnyTok, 1, -1, FALSE)), Lit("$"), Lit("$")>>)
\* /\\verb([^a-zA-Z])(.+?)\1/g
ReVerb == Cat(<<Str(<<"\\", "verb">>), Delimited>>)
\* /^[ \t]*%.*/gm
ReComment == Cat(<<Bol, Star(In({" ", "\t"})), Lit("%"), Star(NotIn({"\n"}))>>)

\* one protecting replace: every match becomes name + counter and its
\* text is stored at index counter of the block array of that kind
Protected(st, name, ms) ==
  [text |-> Splice(st.text, ms,
                   [k \in 1..Len(ms) |-> <<name>> \o NumStr(Len(st.blocks) + k - 1)], 1, 1),
   blocks |-> st.blocks \o [k \in 1..Len(ms) |->
                [kind |-> name, text |-> Sub(st.text, ms[k].st, ms[k].e)]]]
Protect(st, re, name) ==
  IF Len(st.text) < 0 THEN st ELSE Protected(st, name, Matches(re, st.text, 1))

\* lines 23-57: mathBlocks and verbatimBlocks share counter
ProtectMathVerb(s) ==
  LET p1 == Protect([text |-> s, blocks |-> <<>>], ReInlineMath, "MATHBLOCK")
      p2 == Protect(p1, ReDisplayMath, "MATHBLOCK")
      p3 == Protect(p2, ReDollarMath, "MATHBLOCK")
  IN Protect(p3, ReVerb, "VERBBLOCK")

\* lines 60-67: comment lines have their own commentCounter
ProtectComments(s) == Protect([text |-> s, blocks |-> <<>>], ReComment, "LATEXCOMMENT")

\* lines 70-74
ReBareUnderscore == Cat(<<Nlb("\\"), Lit("_"), Nla(In({"_"} \cup Space))>>)
ReBare(c) == Cat(<<Nlb("\\"), Lit(c)>>)
EscapeUnderscore(s) == ReplaceAll(s, ReBareUnderscore, <<"\\", "_">>)
EscapeSpecial(s) ==
  LET s1 == EscapeUnderscore(s)
      s2 == ReplaceAll(s1, ReBare("&"), <<"\\", "&">>)
      s3 == ReplaceAll(s2, ReBare("%"), <<"\\", "%">>)
      s4 == ReplaceAll(s3, ReBare("#"), <<"\\", "#">>)
  IN ReplaceAll(s4, ReBare("^"), <<"\\", "^", "{", "}">>)

\* the printed length, for length = Math.min(n * 0.3, 4) (= Math.min(2n * 0.15, 4)),
\* as IEEE doubles print; h is the exact product in hundredths of a cm
LengthStr(h) ==
  CASE h >= 400 -> "4"
    [] h = 60 -> "0.6"
    [] h = 90 -> "0.8999999999999999"
    [] h = 120 -> "1.2"
    [] h = 150 -> "1.5"
    [] h = 180 -> "1.7999999999999998"
    [] h = 210 -> "2.1"
    [] h = 240 -> "2.4"
    [] h = 270 -> "2.6999999999999997"
    [] h = 300 -> "3"
    [] h = 330 -> "3.3"
    [] h = 360 -> "3.5999999999999996"
    [] h = 390 -> "3.9"
Blank(h) ==
  <<"\\", "underline", "{", "\\", "hspace", "{", LengthStr(h), "cm", "}", "}">>

\* /(\\_){2,}/g and /_{2,}/g
ReEscapedRun == Rep(Grp(1, Str(<<"\\", "_">>)), 2, -1, TRUE)
ReRawRun == Rep(Lit("_"), 2, -1, TRUE)

\* lines 78-87: match.length * 0.15 for escaped runs, * 0.3 for raw runs
Collapsed(s, ms, perToken) ==
  Splice(s, ms, [k \in 1..Len(ms) |-> Blank((ms[k].e - ms[k].st) * perToken)], 1, 1)
CollapseEscaped(s) ==
  IF Len(s) < 0 THEN s ELSE Collapsed(s, Matches(ReEscapedRun, s, 1), 15)
CollapseRaw(s) ==
  IF Len(s) < 0 THEN s ELSE Collapsed(s, Matches(ReRawRun, s, 1), 30)

\* lines 90-97: for (i = counter - 1; i >= 0; i--); blocks[i + 1] is index i
RECURSIVE RestoreBlocks(_, _, _)
RestoreBlocks(s, blocks, i) ==
  IF i < 0 THEN s
  ELSE RestoreBlocks(
         ReplaceFirstStr(s, <<blocks[i + 1].kind>> \o NumStr(i), blocks[i + 1].text),
         blocks, i - 1)

\* lines 108-110
ReBackslashes == Cat(<<Lit("\\"), Lit("\\")>>)
ReTextbf == Cat(<<Lit("\\"), Lit("textbf"), Star(In(Space)), Lit("{")>>)
ReTextit == Cat(<<Lit("\\"), Lit("textit"), Star(In(Space)), Lit("{")>>)
PostFix(s) ==
  LET s1 == ReplaceAll(s, ReBackslashes, <<"\\", "\\">>)
      s2 == ReplaceAll(s1, ReTextbf, <<"\\", "textbf", "{">>)
  IN ReplaceAll(s2, ReTextit, <<"\\", "textit", "{">>)

\* lines 60-110, with pm the text and blocks after lines 23-57 and pc those
\* after lines 60-67
SanitizeCommented(pm, pc) ==
  PostFix(RestoreBlocks(
            RestoreBlocks(CollapseRaw(CollapseEscaped(EscapeSpecial(pc.text))),
                          pm.blocks, Len(pm.blocks) - 1),
            pc.blocks, Len(pc.blocks) - 1))
SanitizeProtected(pm) == SanitizeCommented(pm, ProtectComments(pm.text))
sanitizeLatex(s) == SanitizeProtected(ProtectMathVerb(FixEnumerate(s)))

\* lines 113-114: the matches of /(?<!\\)\{/g and /(?<!\\)\}/g
Braces(s, b) ==
  Cardinality({k \in 1..Len(s) : s[k] = b /\ ~(k > 1 /\ s[k - 1] = "\\")})
\* line 115
Unmatched(open, close) == open > close
\* lines 115-117: the console.warn calls
Warned(openBraces, closeBraces) ==
  IF Unmatched(openBraces, closeBraces)
    THEN <<[open |-> openBraces, close |-> closeBraces]>>
    ELSE <<>>
\* lines 113-117 on the text that line 119 returns
braceCheck(s) ==
  IF Len(s) < 0 THEN <<>> ELSE Warned(Braces(s, "{"), Braces(s, "}"))

(***************************************************************************)
(* parseQuestions                                                           *)
(***************************************************************************)
BeginDocument == <<"\\", "begin", "{", "document", "}">>
EndDocument == <<"\\", "end", "{", "document", "}">>
EndTabular == <<"\\", "end", "{", "tabular", "}">>
EndEnumerate == <<"\\", "end", "{", "enumerate", "}">>
Noindent == <<"\\", "noindent">>
TextbfOpen == <<"\\", "textbf", "{">>
SubsectionOpen == <<"\\", "subsection", "*", "{">>
SectionOpen == <<"\\", "section", "*", "{">>
\* the words that begin with the letter Q

\* String.prototype.trim
trim(s) ==
  LET keep == {k \in 1..Len(s) : s[k] \notin Space}
  IN IF keep = {} THEN <<>> ELSE Sub(s, Min(keep), Max(keep) + 1)
\* String.prototype.length
length(s) == CharLen(s, 1, Len(s) + 1)
\* String.prototype.toLowerCase
toLowerCase(s) == [k \in 1..Len(s) |-> Lower(s[k])]
\* String.prototype.includes
includes(s, w) == IndexOf(s, w, 1) # 0
\* parseInt of a run of digits
RECURSIVE parseInt(_)
parseInt(ds) ==
  IF ds = <<>> THEN 0
  ELSE 10 * parseInt(Sub(ds, 1, Len(ds))) + (CHOOSE v \in 0..9 : DigitOf[v] = ds[Len(ds)])

\* lines 39-43: the section markers
sectionMarker1 ==
  Cat(<<Alt(<<Cat(<<IStr(<<"section", ":">>), Star(In(Space)), IStr(<<"questions">>)>>),
              IStr(<<"questions", " ", "section">>),
              IStr(<<"questions">>),
              IStr(<<"begin", " ", "questions">>)>>),
        Grp(1, LazyStar(AnyTok)),
        La(Alt(<<IStr(EndDocument), Eos>>))>>)
sectionMarker2 ==
  Cat(<<Str(EndTabular), LazyStar(AnyTok), Str(EndTabular),
        Grp(1, LazyStar(AnyTok)), La(Alt(<<Str(EndDocument), Eos>>))>>)
\* in marker 3 a word that begins with Q counts for its first letter
sectionMarker3 ==
  Cat(<<Str(EndEnumerate), Span(200),
        Grp(1, Alt(<<Cat(<<Str(TextbfOpen), In({"Q", "Question", "Questions", "QUESTIONS"})>>),
                     Cat(<<Str(Noindent), LazyStar(AnyTok), Str(<<"Q", ".">>)>>),
                     Cat(<<Bol, Star(In(Space)), Plus(In(Digits)), Lit(".")>>)>>))>>)
sectionMarkers == <<sectionMarker1, sectionMarker2, sectionMarker3>>

\* a capture of a match: defined when the group took part
Defined(m, n) == m.caps[n][1] # 0
Group(s, m, n) == Sub(s, m.caps[n][1], m.caps[n][2])
\* a test against the empty string only, which lets undefined through
NotEmptyString(s, m, n) == ~Defined(m, n) \/ Group(s, m, n) # <<>>
\* a value is truthy when it is defined and not the empty string
Truthy(s, m, n) == Defined(m, n) /\ Group(s, m, n) # <<>>

\* lines 30-52: the text the strategies run on
AfterDocStart(c) ==
  LET docStart == IndexOf(c, BeginDocument, 1)
  IN IF docStart # 0 THEN Sub(c, docStart, Len(c) + 1) ELSE c
RECURSIVE AfterMarker(_, _), AfterMatch(_, _, _)
AfterMarker(qc, k) ==
  IF k > Len(sectionMarkers) THEN qc
  ELSE AfterMatch(qc, k, Exec(sectionMarkers[k], qc, 1))
\* lines 47-50: match[1] || match[0], and break
AfterMatch(qc, k, match) ==
  IF match.ok
  THEN (IF Truthy(qc, match, 1) THEN Group(qc, match, 1)
        ELSE Sub(qc, match.st, match.e))
  ELSE AfterMarker(qc, k + 1)
NarrowContent(c) == AfterMarker(AfterDocStart(c), 1)

\* lines 58-94: the strategies, each a header pattern and a solution pattern
DigitRun == Plus(In(Digits))
Content == LazyStar(AnyTok)
QHeader == Str(TextbfOpen \o <<"Q", ".">>)
NoindentQHeader == Str(Noindent \o TextbfOpen \o <<"Q", ".">>)
QOrQuestion == Alt(<<Str(<<"Q", ".">>), Lit("Question")>>)
QDotOrQuestion == Alt(<<Cat(<<Lit("Q"), Opt(Lit("."))>>), Lit("Question")>>)
LineOrNoindent == Alt(<<Bol, Cat(<<Str(Noindent), Star(In(Space))>>)>>)
LineOrNewline == Alt(<<Bol, Lit("\n")>>)
MarksBox == Cat(<<Str(TextbfOpen \o <<"[">>), Grp(2, Plus(NotIn({"]"}))), Str(<<"]", "}">>)>>)

regex1 ==
  Cat(<<NoindentQHeader, Grp(1, DigitRun), Lit("}"), Star(In(Space)),
        Str(<<"\\", "hfill">>), Star(In(Space)), MarksBox, Grp(3, Content),
        La(Alt(<<Cat(<<NoindentQHeader, DigitRun, Lit("}")>>), Str(EndDocument), Eos>>))>>)
solutionPattern1 ==
  Cat(<<Grp(1, Content), Str(Noindent \o TextbfOpen \o <<"Solution", ":", "}">>),
        Grp(2, Content), La(Alt(<<Str(Noindent \o <<"\\", "rule">>), Eos>>))>>)

regex2 ==
  Cat(<<QHeader, Grp(1, DigitRun), Lit("}"), Star(In(Space)),
        Str(<<"\\", "hfill">>), Star(In(Space)), MarksBox, Grp(3, Content),
        La(Alt(<<Cat(<<QHeader, DigitRun, Lit("}")>>), Str(EndDocument), Eos>>))>>)
solutionPattern2 ==
  Cat(<<Grp(1, Content), Opt(Str(TextbfOpen)), Lit("Solution"), Opt(In({":", "."})),
        Opt(Lit("}")), Content, Grp(2, Content), Eos>>)

regex2b ==
  Cat(<<QHeader, Grp(1, DigitRun), Lit("}"), Content, Lit("["),
        Grp(2, Plus(NotIn({"]"}))), Lit("]"), Grp(3, Content),
        La(Alt(<<Cat(<<QHeader, DigitRun, Lit("}")>>), Str(EndDocument), Eos>>))>>)
solutionPattern2b ==
  Cat(<<Grp(1, Content), Opt(Str(TextbfOpen)), Alt(<<Lit("Solution"), Lit("Ans")>>),
        Opt(In({":", ".", ")"})), Opt(Lit("}")), Content, Grp(2, Content), Eos>>)

regex3 ==
  Cat(<<Str(SubsectionOpen), QOrQuestion, Star(In(Space)), Grp(1, DigitRun),
        Star(In(Space)), Lit("["), Grp(2, Plus(NotIn({"]"}))), Str(<<"]", "}">>),
        Grp(3, Content),
        La(Alt(<<Cat(<<Str(SubsectionOpen), QOrQuestion>>), Str(EndDocument), Eos>>))>>)
solutionPattern3 ==
  Cat(<<Grp(1, Content), Str(SubsectionOpen \o <<"Solution", "}">>), Grp(2, Content),
        La(Alt(<<Str(<<"\\", "vspace">>), Eos>>))>>)

\* /gm: ^ and $ are the line's
regex4 ==
  Cat(<<LineOrNoindent, Opt(Str(TextbfOpen)), QDotOrQuestion, Star(In(Space)),
        Grp(1, DigitRun), Opt(Lit("}")),
        Opt(Cat(<<Star(In(Space)), Opt(In({"(", "["})),
                  Grp(2, Cat(<<LazyStar(NotIn({"]", ")"})), Lit("mark"), Opt(Lit("s"))>>)),
                  Opt(In({"]", ")"}))>>)),
        Opt(In({":", ".", ")"})), Star(In(Space)), Grp(3, Content),
        La(Alt(<<Cat(<<LineOrNoindent, Opt(Str(TextbfOpen)), QDotOrQuestion,
                       Star(In(Space)), DigitRun>>),
                 Str(EndDocument), Eol>>))>>)
solutionPattern4 ==
  Cat(<<Grp(1, Content), Opt(Str(TextbfOpen)),
        Alt(<<Lit("Solution"), Str(<<"Ans", "wer">>), Lit("Ans")>>),
        Opt(In({":", ".", ")"})), Opt(Lit("}")), Content, Grp(2, Content), Eos>>)

regex5 ==
  Cat(<<Str(SectionOpen), Opt(Cat(<<Lit("Question"), Plus(In(Space))>>)),
        Grp(1, DigitRun),
        Opt(Cat(<<Star(In(Space)), Lit("["), Grp(2, Plus(NotIn({"]"}))), Lit("]")>>)),
        Lit("}"), Grp(3, Content),
        La(Alt(<<Str(SectionOpen), Str(EndDocument), Eos>>))>>)
solutionPattern5 ==
  Cat(<<Grp(1, Content), Str(SectionOpen \o <<"Solution", "}">>), Grp(2, Content), Eos>>)

\* /gm: ^ and $ are the line's
regex6 ==
  Cat(<<LineOrNewline, Star(In(Space)), Grp(1, DigitRun), In({".", ")"}),
        Star(In(Space)), Grp(2, Content),
        La(Alt(<<Cat(<<LineOrNewline, Star(In(Space)), DigitRun, In({".", ")"})>>),
                 Str(EndDocument), Eol>>))>>)
solutionPattern6 ==
  Cat(<<Grp(1, Content), Alt(<<Lit("Solution"), Str(<<"Ans", "wer">>), Lit("Ans")>>),
        Opt(In({":", ".", ")"})), Star(In(Space)), Grp(2, Content), Eos>>)

\* the cascade with a last strategy whose number and punctuation are
\* optional, /(?:^|\n)\s*(\d*)[\.\)]?\s*([\s\S]*?)(?=...)/gm: it matches the
\* empty text at the end of the input
LoosePatterns ==
  <<[regex |-> regex1, solutionPattern |-> solutionPattern1],
    [regex |-> regex2, solutionPattern |-> solutionPattern2],
    [regex |-> regex2b, solutionPattern |-> solutionPattern2b],
    [regex |-> regex3, solutionPattern |-> solutionPattern3],
    [regex |-> regex4, solutionPattern |-> solutionPattern4],
    [regex |-> regex5, solutionPattern |-> solutionPattern5],
    [regex |->
       Cat(<<LineOrNewline, Star(In(Space)), Grp(1, Star(In(Digits))),
             Opt(In({".", ")"})), Star(In(Space)), Grp(2, Content),
             La(Alt(<<Cat(<<LineOrNewline, Star(In(Space)), DigitRun,
                            In({".", ")"})>>),
                      Str(EndDocument), Eol>>))>>),
     solutionPattern |-> solutionPattern6]>>

\* lines 58-94
patterns ==
  <<[regex |-> regex1, solutionPattern |-> solutionPattern1],
    [regex |-> regex2, solutionPattern |-> solutionPattern2],
    [regex |-> regex2b, solutionPattern |-> solutionPattern2b],
    [regex |-> regex3, solutionPattern |-> solutionPattern3],
    [regex |-> regex4, solutionPattern |-> solutionPattern4],
    [regex |-> regex5, solutionPattern |-> solutionPattern5],
    [regex |-> regex6, solutionPattern |-> solutionPattern6]>>

\* the instruction filter on the text as written, not lower-cased
IsBoilerplateAsWritten(fullContent) ==
  \/ includes(fullContent, <<"instructions", " ", "to", " ", "candidates">>)
  \/ includes(fullContent, <<"general", " ", "instructions">>)
  \/ /\ includes(fullContent, <<"ans", "wer", " ", "any">>)
     /\ length(fullContent) < 100
  \/ includes(fullContent, <<"examination", " ", "paper">>)
  \/ /\ includes(fullContent, <<"duration", ":">>)
     /\ includes(fullContent, <<"maximum", " ", "mark", "s", ":">>)
\* lines 115-119: the instruction filter
IsBoilerplate(fullContent) ==
  LET lowerContent == toLowerCase(fullContent)
  IN \/ includes(lowerContent, <<"instructions", " ", "to", " ", "candidates">>)
     \/ includes(lowerContent, <<"general", " ", "instructions">>)
     \/ /\ includes(lowerContent, <<"ans", "wer", " ", "any">>)
        /\ length(fullContent) < 100
     \/ includes(lowerContent, <<"examination", " ", "paper">>)
     \/ /\ includes(lowerContent, <<"duration", ":">>)
        /\ includes(lowerContent, <<"maximum", " ", "mark", "s", ":">>)

\* line 105: match[3] || match[2]
ContentGroup(qc, match) == IF Truthy(qc, match, 3) THEN 3 ELSE 2
\* lines 103-146: one iteration of the while loop on one match of strategy
\* k, with fullContent of line 105 and solutionMatch of line 126.  A method
\* called on an undefined value raises.  The fields content and pattern of
\* a record are history: the text of the match and the strategy.
Outcome(k, qc, match, fullContent, solutionMatch) ==
  LET isNaN == ~Truthy(qc, match, 1)
      n == ContentGroup(qc, match)
      trimRaises == ~isNaN /\ Truthy(qc, match, n) /\ ~Defined(match, n)
      skip == isNaN \/ ~Truthy(qc, match, n) \/ length(trim(fullContent)) < 5
      splitRaises == solutionMatch.ok /\ ~Defined(solutionMatch, 1)
      questionText == IF solutionMatch.ok THEN trim(Group(fullContent, solutionMatch, 1))
                      ELSE trim(fullContent)
      solutionText == IF solutionMatch.ok /\ Defined(solutionMatch, 2)
                      THEN trim(Group(fullContent, solutionMatch, 2))
                      ELSE <<>>
      pass == ~skip /\ ~IsBoilerplate(fullContent)
  IN [raises |-> trimRaises \/ (pass /\ splitRaises),
      accept |-> pass,
      push |-> pass /\ length(questionText) > 5,
      question |-> [number |-> parseInt(Group(qc, match, 1)),
                    question |-> questionText,
                    solution |-> solutionText,
                    content |-> fullContent,
                    pattern |-> k]]
Split(k, qc, match, fullContent) ==
  Outcome(k, qc, match, fullContent, Exec(patterns[k].solutionPattern, fullContent, 1))
Iteration(k, qc, match) == Split(k, qc, match, Group(qc, match, ContentGroup(qc, match)))

\* lines 97-147: the while loop of strategy k from lastIndex on.  exec
\* leaves lastIndex at the end of the match, so an empty match at lastIndex
\* would be found again for ever.
RECURSIVE WhileLoop(_, _, _, _), WhileMatch(_, _, _, _), WhileNext(_, _, _, _, _)
WhileLoop(k, qc, lastIndex, st) ==
  WhileMatch(k, qc, st, Exec(patterns[k].regex, qc, lastIndex))
WhileMatch(k, qc, st, match) ==
  IF ~match.ok THEN st ELSE WhileNext(k, qc, st, match, Iteration(k, qc, match))
WhileNext(k, qc, st, match, it) ==
  IF it.raises THEN [st EXCEPT !.raised = TRUE]
  ELSE IF match.e = match.st THEN [st EXCEPT !.hung = TRUE]
  ELSE WhileLoop(k, qc, match.e,
         [st EXCEPT !.parsed = IF it.push THEN Append(@, it.question) ELSE @,
                    !.accepted = IF it.accept THEN @ + 1 ELSE @])

\* the records as pushed, duplicates kept
AllRecords(ps) == ps
\* one entry per number, with the number's first record
FirstValues(ps) ==
  LET firsts == {k \in 1..Len(ps) : \A j \in 1..(k - 1) : ps[j].number # ps[k].number}
      nth(r) == CHOOSE k \in firsts : Cardinality({j \in firsts : j < k}) = r - 1
  IN [r \in 1..Cardinality(firsts) |-> ps[nth(r)]]
\* line 156: new Map(parsedQuestions.map(q => [q.number, q])).values() has
\* one entry per number, at the place of the number's first record and with
\* the number's last record
MapValues(ps) ==
  LET firsts == {k \in 1..Len(ps) : \A j \in 1..(k - 1) : ps[j].number # ps[k].number}
      last(n) == ps[Max({k \in 1..Len(ps) : ps[k].number = n})]
      nth(r) == CHOOSE k \in firsts : Cardinality({j \in firsts : j < k}) = r - 1
  IN [r \in 1..Cardinality(firsts) |-> last(ps[nth(r)].number)]
\* line 157: Array.prototype.sort((a, b) => a.number - b.number), stable
SortByNumber(qs) ==
  LET before(i, j) == \/ qs[i].number < qs[j].number
                      \/ qs[i].number = qs[j].number /\ i < j
      rank(i) == Cardinality({j \in 1..Len(qs) : before(j, i)})
  IN [r \in 1..Len(qs) |-> qs[CHOOSE i \in 1..Len(qs) : rank(i) = r - 1]]
uniqueQuestions(ps) == SortByNumber(MapValues(ps))

\* lines 335-406: the cards of the questions, or the raw text when there is none
Render(qs) == IF Len(qs) = 0 THEN "raw" ELSE "cards"

\* the extractor before the component is given a text
ExtIdle ==
  /\ content = <<>>
  /\ questionsContent = <<>>
  /\ patternIdx = 0
  /\ parsedQuestions = <<>>
  /\ accepted = <<>>
  /\ raised = FALSE
  /\ questions = <<>>
  /\ extPc = "idle"

(***************************************************************************)
(* The renderer: formatContent (LatexPreview.tsx, lines 219-331)            *)
(*                                                                         *)
(* The markup the renderer writes is a token sequence too: "<", the tag    *)
(* name, the attribute text as one token, ">".  A command name of which a  *)
(* shorter command is a prefix is two tokens ("par" "box", "item" "sep").  *)
(***************************************************************************)
\* \name
Cmd(w) == Str(<<"\\", w>>)
\* \begin\{name\} and \end\{name\}
Env(b, w) == Str(<<"\\", b, "{", w, "}">>)
\* \{[^}]*\}
Arg == Cat(<<Lit("{"), Star(NotIn({"}"})), Lit("}")>>)
\* \{([^}]*)\}
Arg1 == Cat(<<Lit("{"), Grp(1, Star(NotIn({"}"}))), Lit("}")>>)
\* \[[^\]]*\]
Option == Cat(<<Lit("["), Star(NotIn({"]"})), Lit("]")>>)
\* \{\\size\s+(.*?)\}
Sized(w) ==
  Cat(<<Lit("{"), Cmd(w), Plus(In(Space)), Grp(1, LazyStar(NotIn({"\n"}))),
        Lit("}")>>)

\* one .replace(re, rep) of the chain; box: rep is built by the callback of
\* lines 251-258
Step(re, rep, box) == [re |-> re, rep |-> rep, box |-> box]

\* the chain of lines 221-314, in its order
formatSteps == <<
    Step(Cat(<<Cmd("documentclass"), Opt(Option), Arg>>),
         <<>>, FALSE),
    Step(Cat(<<Cmd("usepackage"), Opt(Option), Arg>>),
         <<>>, FALSE),
    Step(Cat(<<Cmd("geometry"), Arg>>),
         <<>>, FALSE),
    Step(Cat(<<Cmd("pagestyle"), Arg>>),
         <<>>, FALSE),
    Step(Cat(<<Cmd("setlength"), Arg, Arg>>),
         <<>>, FALSE),
    Step(Cat(<<Cmd("addtolength"), Arg, Arg>>),
         <<>>, FALSE),
    Step(Str(<<"\\", "fancyhf", "{", "}">>),
         <<>>, FALSE),
    Step(Cat(<<Cmd("fancyhead"), Option, Arg>>),
         <<>>, FALSE),
    Step(Cat(<<Cmd("fancyfoot"), Option, Arg>>),
         <<>>, FALSE),
    Step(Env("begin", "document"),
         <<>>, FALSE),
    Step(Env("end", "document"),
         <<>>, FALSE),
    Step(Cmd("maketitle"),
         <<>>, FALSE),
    Step(Cat(<<Cmd("title"), Arg1>>),
         <<>>, FALSE),
    Step(Cat(<<Cmd("author"), Arg1>>),
         <<>>, FALSE),
    Step(Cat(<<Cmd("date"), Arg1>>),
         <<>>, FALSE),
    Step(Cmd("noindent"),
         <<>>, FALSE),
    Step(Cmd("centering"),
         <<>>, FALSE),
    Step(Cat(<<Cmd("phantom"), Arg>>),
         <<>>, FALSE),
    Step(Cat(<<Cmd("dimexpr"), Star(NotIn({"}"})), Cmd("fboxsep"), Star(NotIn({"}"})), Cmd("fboxrule")>>),
         <<"1", "0", "0", "%">>, FALSE),
    Step(Cat(<<Cmd("vspace"), Arg>>),
         <<"<", "div", " class=\"my-4\"", ">", "<", "/", "div", ">">>, FALSE),
    Step(Cat(<<Cmd("hspace"), Arg>>),
         <<"<", "span", " class=\"inline-block w-4\"", ">", "<", "/", "span", ">">>, FALSE),
    Step(Cmd("newpage"),
         <<"<", "div", " class=\"border-t-2 border-gray-300 my-8\"", ">", "<", "/", "div", ">">>, FALSE),
    Step(Cat(<<Env("begin", "center"), Grp(1, LazyStar(AnyTok)), Env("end", "center")>>),
         <<"<", "div", " class=\"text-center\"", ">", "$", "1", "<", "/", "div", ">">>, FALSE),
    Step(Cat(<<Cmd("fbox"), Lit("{"), Str(<<"\\", "par", "box">>), Arg, Lit("{"), Grp(1, LazyStar(AnyTok)), Lit("}"), Lit("}")>>),
         <<"<", "div", " class=\"border-2 border-black p-4 my-6 bg-white\"", ">", "$", "1", "<", "/", "div", ">">>, TRUE),
    Step(Cat(<<Cmd("fbox"), Lit("{"), Grp(1, LazyStar(AnyTok)), Lit("}")>>),
         <<"<", "div", " class=\"border-2 border-gray-800 p-4 rounded-md inline-block\"", ">", "$", "1", "<", "/", "div", ">">>, FALSE),
    Step(Cat(<<Cmd("rule"), Arg, Arg>>),
         <<"<", "hr", " class=\"border-t-2 border-gray-400 my-2\"", " ", "/", ">">>, FALSE),
    Step(Cat(<<Cmd("section"), Lit("*"), Arg1>>),
         <<"<", "h2", " class=\"text-2xl font-bold mt-8 mb-4 text-purple-700\"", ">", "$", "1", "<", "/", "h2", ">">>, FALSE),
    Step(Cat(<<Cmd("subsection"), Lit("*"), Arg1>>),
         <<"<", "h3", " class=\"text-xl font-semibold mt-6 mb-3 text-indigo-600\"", ">", "$", "1", "<", "/", "h3", ">">>, FALSE),
    Step(Cat(<<Cmd("section"), Arg1>>),
         <<"<", "h2", " class=\"text-2xl font-bold mt-8 mb-4 text-purple-700\"", ">", "$", "1", "<", "/", "h2", ">">>, FALSE),
    Step(Cat(<<Cmd("subsection"), Arg1>>),
         <<"<", "h3", " class=\"text-xl font-semibold mt-6 mb-3 text-indigo-600\"", ">", "$", "1", "<", "/", "h3", ">">>, FALSE),
    Step(Sized("Large"),
         <<"<", "span", " class=\"text-2xl\"", ">", "$", "1", "<", "/", "span", ">">>, FALSE),
    Step(Sized("large"),
         <<"<", "span", " class=\"text-xl\"", ">", "$", "1", "<", "/", "span", ">">>, FALSE),
    Step(Sized("small"),
         <<"<", "span", " class=\"text-sm\"", ">", "$", "1", "<", "/", "span", ">">>, FALSE),
    Step(Sized("tiny"),
         <<"<", "span", " class=\"text-xs\"", ">", "$", "1", "<", "/", "span", ">">>, FALSE),
    Step(Cat(<<Env("begin", "itemize"), Opt(Option)>>),
         <<"<", "ul", " class=\"list-disc ml-6 my-3 space-y-1\"", ">">>, FALSE),
    Step(Env("end", "itemize"),
         <<"<", "/", "ul", ">">>, FALSE),
    Step(Cat(<<Env("begin", "enumerate"), Opt(Option)>>),
         <<"<", "ol", " class=\"list-decimal ml-6 my-3 space-y-1\"", ">">>, FALSE),
    Step(Env("end", "enumerate"),
         <<"<", "/", "ol", ">">>, FALSE),
    Step(Cat(<<Cmd("item"), Opt(Cat(<<Star(In(Space)), Option>>))>>),
         <<"<", "li", " class=\"ml-0 pl-1\"", ">">>, FALSE),
    Step(Cat(<<Cmd("textbf"), Arg1>>),
         <<"<", "strong", ">", "$", "1", "<", "/", "strong", ">">>, FALSE),
    Step(Cat(<<Cmd("textit"), Arg1>>),
         <<"<", "em", ">", "$", "1", "<", "/", "em", ">">>, FALSE),
    Step(Cat(<<Cmd("emph"), Arg1>>),
         <<"<", "em", ">", "$", "1", "<", "/", "em", ">">>, FALSE),
    Step(Cat(<<Cmd("underline"), Arg1>>),
         <<"<", "u", ">", "$", "1", "<", "/", "u", ">">>, FALSE),
    Step(Cat(<<Str(<<"\\", "\\">>), Opt(Lit("[")), Star(NotIn({"]"})), Opt(Lit("]"))>>),
         <<"<", "br", "/", ">">>, FALSE),
    Step(Cmd("newline"),
         <<"<", "br", "/", ">">>, FALSE),
    Step(Cmd("&"),
         <<"&">>, FALSE),
    Step(Cmd("%"),
         <<"%">>, FALSE),
    Step(Cmd("#"),
         <<"#">>, FALSE),
    Step(Cat(<<Cmd("_"), Nla(Cat(<<Star(NotIn({"$"})), Lit("$")>>))>>),
         <<"_">>, FALSE),
    Step(Cmd("bigskip"),
         <<"<", "div", " class=\"my-6\"", ">", "<", "/", "div", ">">>, FALSE),
    Step(Cmd("medskip"),
         <<"<", "div", " class=\"my-4\"", ">", "<", "/", "div", ">">>, FALSE),
    Step(Cmd("smallskip"),
         <<"<", "div", " class=\"my-2\"", ">", "<", "/", "div", ">">>, FALSE),
    Step(Cmd("quad"),
         <<"<", "span", " class=\"inline-block w-8\"", ">", "<", "/", "span", ">">>, FALSE),
    Step(Cmd("qquad"),
         <<"<", "span", " class=\"inline-block w-16\"", ">", "<", "/", "span", ">">>, FALSE),
    Step(Cat(<<Cmd("par"), Star(In(Space))>>),
         <<"<", "/", "p", ">", "<", "p", " class=\"my-4\"", ">">>, FALSE)
  >>

\* the replacement text with $1 expanded to g, the text of the first group
RECURSIVE Expand(_, _, _)
Expand(rep, k, g) ==
  IF k > Len(rep) THEN <<>>
  ELSE IF rep[k] = "$" /\ k < Len(rep) /\ rep[k + 1] = "1"
    THEN g \o Expand(rep, k + 2, g)
  ELSE <<rep[k]>> \o Expand(rep, k + 1, g)

\* lines 253-256: the content of an instruction box, its list openers
\* rewritten before the box is
Processed(c) ==
  ReplaceAll(
    ReplaceAll(
      ReplaceAll(c,
        Cat(<<Env("begin", "itemize"),
              Str(<<"[", "leftmargin", "=", "*">>), Opt(Lit(",")),
              Star(In(Space)), Str(<<"itemsep", "=">>), Star(NotIn({"]"})),
              Lit("]")>>),
        <<"<", "ul", " class=\"list-disc ml-5 space-y-0.5 my-2\"", ">">>),
      Cat(<<Env("begin", "itemize"), Str(<<"[", "itemsep", "=">>),
            Star(NotIn({"]"})), Lit("]")>>),
      <<"<", "ul", " class=\"list-disc ml-5 space-y-0.5 my-2\"", ">">>),
    Env("begin", "itemize"),
    <<"<", "ul", " class=\"list-disc ml-5 space-y-1 my-2\"", ">">>)

\* one step applied to every match ms of its expression in s; the callback
\* of lines 251-258 puts the processed content where $1 stands
ApplyStep(s, step, ms) ==
  Splice(s, ms,
         [k \in 1..Len(ms) |->
            Expand(step.rep, 1,
                   IF step.box THEN Processed(Group(s, ms[k], 1))
                               ELSE Group(s, ms[k], 1))],
         1, 1)

\* lines 221-314: the steps from the k-th on
RECURSIVE ApplySteps(_, _, _)
ApplySteps(s, steps, k) ==
  IF Len(s) < 0 THEN s
  ELSE IF k > Len(steps) THEN s
  ELSE ApplySteps(ApplyStep(s, steps[k], Matches(steps[k].re, s, 1)),
                  steps, k + 1)

\* String.prototype.split with a string separator
RECURSIVE split(_, _)
split(s, sep) ==
  LET i == IndexOf(s, sep, 1)
  IN IF i = 0 THEN <<s>>
     ELSE <<Sub(s, 1, i)>> \o split(Sub(s, i + Len(sep), Len(s) + 1), sep)

\* Array.prototype.join
RECURSIVE join(_, _)
join(ps, sep) ==
  IF ps = <<>> THEN <<>>
  ELSE IF Len(ps) = 1 THEN ps[1]
  ELSE ps[1] \o sep \o join(Tail(ps), sep)

\* line 320: the paragraphs kept: not empty and not one lone tag,
\* /^<[^>]+>$/
Kept(p) ==
  /\ p # <<>>
  /\ Len(p) + 1
       \notin Ends(Cat(<<Lit("<"), Plus(NotIn({">"})), Lit(">")>>), p, 1)

\* lines 321-327: a paragraph that opens with a block-level tag,
\* /^<(div|h[1-6]|ul|ol|hr)/, stays as it is
Unwrapped(p) == p
Wrapped(p) ==
  IF Len(p) >= 2 /\ p[1] = "<"
     /\ p[2] \in {"div", "h1", "h2", "h3", "h4", "h5", "h6", "ul", "ol", "hr"}
    THEN p
    ELSE <<"<", "p", " class=\"my-4\"", ">">> \o p \o <<"<", "/", "p", ">">>

\* lines 318-327: the paragraphs from the k-th on, trimmed, filtered, wrapped
RECURSIVE Paragraphs(_, _)
Paragraphs(ps, k) ==
  IF k > Len(ps) THEN <<>>
  ELSE (IF Kept(trim(ps[k])) THEN <<Wrapped(trim(ps[k]))>> ELSE <<>>)
       \o Paragraphs(ps, k + 1)

formatContent(latex_) ==
  join(Paragraphs(split(ApplySteps(latex_, formatSteps, 1), <<"\n", "\n">>), 1),
       <<"\n">>)

(***************************************************************************)
(* The compile handler (part_002, lines 122-301)                            *)
(***************************************************************************)
\* what the look-aheads of lines 148-157 stop at: the next question header
\* or the end of the document; under /i "\{Q" also opens "{Question"
NextQuestion(more) ==
  La(Alt(<<Cat(<<IStr(Noindent \o TextbfOpen), IStr(<<"q", ".">>)>>),
           Cat(<<IStr(SubsectionOpen),
                 In({"Q", "q", "Question", "Questions", "QUESTIONS",
                     "question", "questions"})>>)>>
         \o more \o <<IStr(EndDocument)>>))

\* lines 148-167: the replacements made when includeSolutions is false
solutionSteps == <<
    Step(Cat(<<IStr(SubsectionOpen \o <<"solution", "}">>), LazyStar(AnyTok),
               NextQuestion(<<>>)>>),
         <<>>, FALSE),
    Step(Cat(<<IStr(Noindent \o TextbfOpen \o <<"solution", ":", "}">>),
               LazyStar(AnyTok), NextQuestion(<<>>)>>),
         <<>>, FALSE),
    Step(Cat(<<IStr(TextbfOpen \o <<"solution">>), Opt(In({":", "."})),
               Lit("}"), LazyStar(AnyTok),
               NextQuestion(<<Cat(<<IStr(TextbfOpen), IStr(<<"q", ".">>)>>)>>)>>),
         <<>>, FALSE),
    Step(Cat(<<Lit("\n"), Star(In(Space)), IStr(<<"solution", ":">>),
               Star(In(Space)), LazyStar(AnyTok), NextQuestion(<<>>)>>),
         <<>>, FALSE),
    Step(Rep(Cat(<<Cmd("vspace"), Arg, Star(In(Space))>>), 2, -1, TRUE),
         <<"\\", "vspace", "{", "0", ".", "5", "cm", "}", "\n">>, FALSE),
    Step(Rep(Cat(<<Str(Noindent), Cmd("rule"), Arg, Arg, Star(In(Space))>>),
             2, -1, TRUE),
         <<"\\", "noindent", "\\", "rule", "{", "0", ".", "5", "\\",
           "textwidth", "}", "{", "0", ".", "3", "pt", "}", "\n">>, FALSE),
    Step(IStr(TextbfOpen \o <<"solution", "}">>), <<>>, FALSE),
    Step(IStr(SubsectionOpen \o <<"solution", "}">>), <<>>, FALSE)
  >>

\* String.prototype.substring(0, n); the texts cut here have single
\* characters as tokens where the cut falls
substring(s, n) ==
  IF length(s) <= n THEN s
  ELSE Sub(s, 1, 1 + CHOOSE k \in 0..Len(s) : CharLen(s, 1, k + 1) = n)

\* lines 227-233: an error line with the two lines after it, for every line
\* from the i-th on that starts with "!" or contains "Error"
RECURSIVE errorDetails(_, _)
errorDetails(lines, i) ==
  IF i > Len(lines) THEN <<>>
  ELSE (IF (lines[i] # <<>> /\ lines[i][1] = "!") \/ includes(lines[i], <<"Error">>)
          THEN <<join(Sub(lines, i, Min({i + 3, Len(lines) + 1})), <<"\n">>)>>
          ELSE <<>>)
       \o errorDetails(lines, i + 1)

\* the hints of lines 242, 246, 249 and the text of line 220
MathHint ==
  <<"LaTeX syntax error: Math mode issue. Please check underscores and special characters.">>
InvalidCommandHint == <<"LaTeX syntax error: Invalid command used.">>
PackageHint ==
  <<"Missing LaTeX package. The generated code uses packages that may not be installed.">>
CompilationFailed == <<"LaTeX compilation failed.">>
UndefinedControlSequence == <<"Undefined", " ", "control", " ", "sequence">>
MaxDiagnostic == 300
MaxExcerpt == 200
ExcerptSpan == 100

\* lines 235-236: the first two details, joined and cut
Diagnostic(details) ==
  IF details = <<>> THEN CompilationFailed
  ELSE substring(join(Sub(details, 1, Min({3, Len(details) + 1})),
                      <<" ", "|", " ">>), MaxDiagnostic)

\* lines 244-247: the log from "Undefined control sequence" on
Excerpt(log, ms) ==
  IF ms = <<>> THEN InvalidCommandHint
  ELSE substring(Sub(log, ms[1].st, ms[1].e), MaxExcerpt)

\* lines 217-251: errorMsg for the log of a run that left no PDF; the three
\* tests are made one after the other, each overwriting the message
errorMessage(logContent_) ==
  IF includes(logContent_, <<"!", " ", "Package">>) THEN PackageHint
  ELSE IF includes(logContent_, UndefinedControlSequence)
    THEN Excerpt(logContent_,
                 Matches(Cat(<<Str(UndefinedControlSequence), Span(ExcerptSpan)>>),
                         logContent_, 1))
  ELSE IF includes(logContent_, <<"Missing", " ", "$", " ", "inserted">>)
    THEN MathHint
  ELSE Diagnostic(errorDetails(split(logContent_, <<"\n">>), 1))

\* fs.existsSync is false
Absent == <<"ENOENT">>

\* lines 273-288: the catch around the passes answers an error with code
\* ENOENT or with killed set, and throws any other on to the catch of line
\* 284; thrown is the error's code, killed and message
Answer(thrown) ==
  IF thrown.code = "ENOENT"
    THEN [status |-> 500, error |-> <<"PDF compilation not available.">>]
  ELSE IF thrown.killed
    THEN [status |-> 500, error |-> <<"PDF compilation timed out">>]
  ELSE [status |-> 500, error |-> <<"PDF generation failed: ">> \o thrown.message]
\* line 257: new Error(errorMsg) has no code and no killed
Error(message) == [code |-> "undefined", killed |-> FALSE, message |-> message]
\* the error is one that line 283 throws on
Rethrown(thrown) == thrown.code # "ENOENT" /\ ~thrown.killed

\* a catch that leaves tempDir as it is
Cleaned(dir) == dir
\* line 291: tempDir = null, so that the directory stays for debugging
Preserved(dir) == "null"
\* lines 292-300: finally removes the directory that tempDir names
Finally(dir, exists) == IF dir # "null" /\ exists THEN FALSE ELSE exists

HdlIdle ==
  /\ method = "POST"
  /\ includeSolutions = TRUE
  /\ processedLatex = <<>>
  /\ texFile = Absent
  /\ passes = <<>>
  /\ pdfFile = FALSE
  /\ logFile = Absent
  /\ errorMsg = <<>>
  /\ response = [status |-> 0, error |-> <<>>]
  /\ sent = 0
  /\ tempDir = "null"
  /\ dirExists = FALSE
  /\ hdlPc = "idle"

FmtIdle ==
  /\ fragment = <<>>
  /\ formatted = <<>>
  /\ fmtPc = "idle"

(***************************************************************************)
(* The upload handler (part_000, lines 339-494)                             *)
(***************************************************************************)
\* the fence of a markdown code block (three back quotes), one token
Fence == "FENCE"
\* line 439: /FENCE(?:latex)?\s*\n([\s\S]*?)\nFENCE/i
ReCodeBlock ==
  Cat(<<Lit(Fence), Opt(IStr(<<"latex">>)), Star(In(Space)), Lit("\n"),
        Grp(1, Content), Lit("\n"), Lit(Fence)>>)
\* line 444: /^FENCE(?:latex)?\s*\n?/i
ReLeadingFence ==
  Cat(<<Lit(Fence), Opt(IStr(<<"latex">>)), Star(In(Space)), Opt(Lit("\n"))>>)
\* line 446: /\n?FENCE\s*$/i
ReTrailingFence == Cat(<<Opt(Lit("\n")), Lit(Fence), Star(In(Space)), Eos>>)
\* line 450: /\\documentclass[\s\S]*/
ReDocStart == Cat(<<Str(<<"\\", "documentclass">>), Star(AnyTok)>>)

\* String.prototype.replace(/^.../, ''): m is the leftmost match, which
\* starts at the first character if any match does
StripLeading(s, m) == IF m.ok /\ m.st = 1 THEN Sub(s, m.e, Len(s) + 1) ELSE s
\* lines 444-446
Unfenced(s) ==
  ReplaceAll(StripLeading(s, Exec(ReLeadingFence, s, 1)), ReTrailingFence, <<>>)
\* lines 450-453
FromDocStart(s, docStartMatch) ==
  IF docStartMatch.ok THEN Sub(s, docStartMatch.st, docStartMatch.e) ELSE s
\* lines 439-456: the LaTeX of the model's answer
ExtractedFrom(s, codeBlockMatch) ==
  IF codeBlockMatch.ok THEN Group(s, codeBlockMatch, 1) ELSE Unfenced(s)
Trimmed(s) == trim(FromDocStart(s, Exec(ReDocStart, s, 1)))
ExtractedLatex(s) == Trimmed(ExtractedFrom(s, Exec(ReCodeBlock, s, 1)))

\* patternText when no pattern file was read
Undefined == <<"undefined">>
\* lines 409-415, 458-464, 472-486: the uploaded files are unlinked;
\* patternFilePath is null without a pattern file
Unlinked(dir, filePath, patternFilePath) ==
  (dir \ {filePath}) \ (IF patternFilePath # "null" THEN {patternFilePath} ELSE {})
\* line 373
PatternFilePath(fs) == IF "patternFile" \in fs THEN "patternFile" ELSE "null"
\* line 487: error.message || 'Failed to process PDF'
ProcessingError(message) ==
  [status |-> 500,
   error |-> IF message # <<>> THEN message ELSE <<"Failed to process PDF">>]

\* the upload handler before a request
UplIdle ==
  /\ uploadMethod = "POST"
  /\ files = {}
  /\ uploadDir = {}
  /\ pdfText = <<>>
  /\ patternText = Undefined
  /\ latexContent = <<>>
  /\ uploadResponse = [status |-> 0, error |-> <<>>]
  /\ uploadPc = "idle"

\* LatexPreview.tsx line 18: no solution is shown at first
VisIdle == visibleSolutions = {}

QUESTION_TYPES ==
  <<"problem-solving", "conceptual", "application", "proof-based",
    "multiple-choice", "true-false">>
TypeKeys == {"mcq", "fillInBlanks", "trueFalse", "general"}
MarkKeys == {"2", "3", "4", "5", "6", "10"}
NoClick == [handler |-> "none", key |-> "none", delta |-> 0]

\* a check of the new selection that lets every selection through
Always(types) == TRUE
\* part_001 line 96: the new selection is given to the parent
Accepted(types) == Len(types) > 0
\* lines 92-94: Array.includes, filter, and the spread with the new type
Includes(types, type) == \E i \in 1..Len(types) : types[i] = type
Without(types, type) == SelectSeq(types, LAMBDA t : t # type)
\* lines 91-99
handleQuestionTypeToggle(cfg, type) ==
  LET types == IF Includes(cfg.questionTypes, type)
               THEN Without(cfg.questionTypes, type)
               ELSE Append(cfg.questionTypes, type)
  IN IF Accepted(types) THEN [cfg EXCEPT !.questionTypes = types] ELSE cfg

\* lines 114 and 123: the counts, all zero when the field is undefined
Current(field, keys) ==
  IF field = {} THEN [k \in keys |-> 0] ELSE CHOOSE counts \in field : TRUE
\* lines 115 and 124: a count is a number, so (current[key] || 0) is the count
NewValue(current, key, delta) == Max({0, current[key] + delta})
\* lines 113-120
handleQuestionTypeCountChange(cfg, type, delta) ==
  LET current == Current(cfg.questionsByType, TypeKeys)
  IN [cfg EXCEPT !.questionsByType =
                    {[current EXCEPT ![type] = NewValue(current, type, delta)]}]
\* lines 122-129
handleQuestionMarkCountChange(cfg, marks, delta) ==
  LET current == Current(cfg.questionsByMarks, MarkKeys)
  IN [cfg EXCEPT !.questionsByMarks =
                    {[current EXCEPT ![marks] = NewValue(current, marks, delta)]}]
\* the customizer before a click: an optional field is the empty set when
\* it is undefined and else the set of its one value
CfgIdle ==
  /\ config = [questionTypes |-> <<QUESTION_TYPES[1]>>,
               questionsByType |-> {}, questionsByMarks |-> {}]
  /\ clicked = NoClick

AuxIdle == UplIdle /\ VisIdle /\ CfgIdle

(***************************************************************************)
(* The sanitizer as a state machine: the handler sanitizes the request's    *)
(* text once (line 143); sanitizing the result again is the second call of  *)
(* the idempotence property.                                                *)
(***************************************************************************)
MaxPieces == 3

SanVocabulary ==
  {<<"_">>, <<"a">>, <<" ">>, <<"$">>, <<"&">>, <<"%">>, <<"\\">>, <<"\n">>,
   <<"{">>, <<"\\", "textbf", " ">>}

\* eleven math spans, the second with the digit 0 directly after it
ElevenSpans ==
  <<"$", "a", "$", "$", "b", "$", "0">>
  \o [k \in 1..27 |-> IF k % 3 = 2 THEN "x" ELSE "$"]

\* documents of the specification's examples, one document per kind of
\* protected span, runs of underscores before a letter, before a space and
\* long enough for the cap, and documents with placeholder-like text, with a
\* digit after a math span and with more than ten spans
SanExamples ==
  {<<"Name", ":", " ", "_", "_", "_", "_", "_", "_">>,
   <<"%", " ", "$", "a", "_", "b", "$">>,
   <<"%", " ", "\\", "textbf", " ", "{", "a", "}">>,
   <<"$", "a", "_", "b", "$", " ", "a", "_", "b">>,
   <<"\\", "[", "a", "_", "b", "\\", "]">>,
   <<"$", "$", "a", "_", "b", "$", "$">>,
   <<"\\", "verb", "|", "a", "_", "b", "|">>,
   <<"%", " ">> \o BeginEnumerate \o <<"[", "(", "a", ")", "]">>,
   <<"a", "_", "_", "_", "_", " ", "b">>,
   <<"a", "\\", "_", "\\", "_", "\\", "_", "b">>,
   <<"_", "_", "_", "a">>,
   [k \in 1..15 |-> IF k = 15 THEN " " ELSE "_"],
   [k \in 1..30 |-> IF k % 2 = 1 THEN "\\" ELSE "_"],
   <<"{", "a", "}", "}">>,
   <<"MATHBLOCK", "0", " ", "$", "a", "$">>,
   <<"$", "a", "$", "1", " ", "$", "b", "$">>,
   ElevenSpans}

RECURSIVE PieceStrings(_, _)
PieceStrings(V, n) ==
  IF n = 0 THEN {<<>>}
  ELSE LET P == PieceStrings(V, n - 1) IN P \cup {p \o v : p \in P, v \in V}

InitSanitize ==
  /\ latex \in PieceStrings(SanVocabulary, MaxPieces) \cup SanExamples
  /\ sanitized = <<>>
  /\ resanitized = <<>>
  /\ warnings = <<>>
  /\ sanPc = "input"
  /\ ExtIdle
  /\ FmtIdle
  /\ HdlIdle
  /\ AuxIdle

\* processedLatex = sanitizeLatex(processedLatex)
Sanitize ==
  /\ sanPc = "input"
  /\ sanitized' = sanitizeLatex(latex)
  /\ warnings' = warnings \o braceCheck(sanitized')
  /\ sanPc' = "sanitized"
  /\ UNCHANGED <<latex, resanitized, extVars, fmtVars, hdlVars, auxVars>>

\* the sanitizer applied to its own output
Resanitize ==
  /\ sanPc = "sanitized"
  /\ resanitized' = sanitizeLatex(sanitized)
  /\ warnings' = warnings \o braceCheck(resanitized')
  /\ sanPc' = "resanitized"
  /\ UNCHANGED <<latex, sanitized, extVars, fmtVars, hdlVars, auxVars>>

NextSanitize == Sanitize \/ Resanitize

SpecSanitize == InitSanitize /\ [][NextSanitize]_vars

(***************************************************************************)
(* The extraction as a state machine: the component's effect runs           *)
(* parseQuestions on a non-empty content (line 167).  One step narrows the  *)
(* text, then one step per strategy runs its while loop; the step that      *)
(* leaves the for loop removes the duplicates, sorts and sets the state.    *)
(***************************************************************************)
MaxQuestions == 2

\* a question header in the form that strategy number style looks for
Header(style, n) ==
  CASE style = 1 -> Noindent \o TextbfOpen \o <<"Q", ".">> \o NumStr(n)
                    \o <<"}", " ", "\\", "hfill", " ">> \o TextbfOpen \o <<"[", "5", "]", "}">>
    [] style = 2 -> TextbfOpen \o <<"Q", ".">> \o NumStr(n)
                    \o <<"}", " ", "\\", "hfill", " ">> \o TextbfOpen \o <<"[", "5", "]", "}">>
    [] style = 3 -> TextbfOpen \o <<"Q", ".">> \o NumStr(n) \o <<"}", " ", "[", "5", "]">>
    [] style = 4 -> SubsectionOpen \o <<"Q", ".">> \o NumStr(n) \o <<" ", "[", "5", "]", "}">>
    [] style = 5 -> <<"Q">> \o NumStr(n) \o <<":">>
    [] style = 6 -> SectionOpen \o <<"Question", " ">> \o NumStr(n) \o <<"}">>
    [] style = 7 -> NumStr(n) \o <<".">>
\* a solution separator that the strategy's solution pattern looks for
Separator(style) ==
  CASE style = 1 -> Noindent \o TextbfOpen \o <<"Solution", ":", "}">>
    [] style \in {2, 3} -> TextbfOpen \o <<"Solution", ":", "}">>
    [] style = 4 -> SubsectionOpen \o <<"Solution", "}">>
    [] style = 5 -> <<"Ans", "wer", ":">>
    [] style = 6 -> SectionOpen \o <<"Solution", "}">>
    [] style = 7 -> <<"Ans", ":">>
\* the text under a header: a prompt, a prompt and its solution, a prompt
\* below the minimum length, instruction text, a solution without a prompt
Body(style, kind) ==
  CASE kind = "plain" -> <<"\n", "Explain", " ", "gravity", "\n">>
    [] kind = "solved" -> <<"\n", "Define", " ", "mass", "\n">> \o Separator(style)
                          \o <<" ", "It", " ", "falls", "\n">>
    [] kind = "short" -> <<"\n", "ab", "\n">>
    [] kind = "boiler" -> <<"\n", "General", " ", "Instructions", " ", "apply", "\n">>
    [] kind = "solfirst" -> <<"\n">> \o Separator(style) \o <<" ", "It", " ", "falls", "\n">>
    [] kind = "listing" -> <<"\n", "List", " ", "the", " ", "questions", "\n">>
    [] kind = "candidates" -> <<"\n", "Instructions", " ", "to", " ", "candidates", "\n">>
    [] kind = "paper" -> <<"\n", "Examination", " ", "Paper", "\n">>
    [] kind = "anyof" -> <<"\n", "Ans", "wer", " ", "any", " ", "2", "\n">>
    [] kind = "duration" -> <<"\n", "Duration", ":", " ", "2", " ", "Maximum", " ",
                              "Mark", "s", ":", " ", "5", "\n">>
Q(n, kind) == [number |-> n, body |-> kind]
RECURSIVE Questions(_, _)
Questions(style, qs) ==
  IF qs = <<>> THEN <<>>
  ELSE Header(style, qs[1].number) \o Body(style, qs[1].body)
       \o Questions(style, Tail(qs))

\* what stands before and after the questions
Preamble(wrap) ==
  CASE wrap = "none" -> <<>>
    [] wrap = "document" -> <<"\\", "documentclass", "{", "article", "}", "\n">>
                            \o BeginDocument \o <<"\n">>
    [] wrap = "block" -> BeginDocument \o <<"\n">> \o BeginEnumerate
                         \o <<"\n", "\\", "item", " ", "Ans", "wer", " ", "all", "\n">>
                         \o EndEnumerate \o <<"\n">>
    [] wrap = "tables" -> BeginDocument \o <<"\n">> \o EndTabular \o <<"\n">>
                          \o EndTabular \o <<"\n">>
Wraps == {"none", "document", "block", "tables"}
Document(wrap, style, qs) ==
  Preamble(wrap) \o Questions(style, qs)
  \o (IF wrap = "none" THEN <<>> ELSE EndDocument \o <<"\n">>)

QKinds == {Q(1, "plain"), Q(2, "solved"), Q(2, "boiler"), Q(1, "solfirst")}
RECURSIVE SeqsUpTo(_, _)
SeqsUpTo(S, n) ==
  IF n = 0 THEN {<<>>}
  ELSE LET P == SeqsUpTo(S, n - 1) IN P \cup {Append(p, x) : p \in P, x \in S}

\* every header form with up to MaxQuestions questions, and with one
\* question fewer inside a document
GeneratedDocuments ==
  {Document("none", style, qs) :
     style \in 1..Len(patterns), qs \in SeqsUpTo(QKinds, MaxQuestions)}
  \cup {Document("document", style, qs) :
          style \in 1..Len(patterns), qs \in SeqsUpTo(QKinds, MaxQuestions - 1)}

\* documents in the standard form: N headers numbered 1..N, each with an
\* acceptable body, with or without \begin{document} and a header block
StandardBodies == {"plain", "solved", "listing"}
Numbered(kinds) == [i \in 1..Len(kinds) |-> Q(i, kinds[i])]
StandardDocuments ==
  {Document(wrap, 1, Numbered(kinds)) :
     wrap \in Wraps,
     kinds \in SeqsUpTo(StandardBodies, MaxQuestions) \ {<<>>}}

\* a header with an unbalanced brace and an unmatched math delimiter
Unbalanced == TextbfOpen \o <<"Q", ".", "}", "}", " ", "$", "a", "{", "\n">>
\* the examples of the specification and one document per rejection phrase
ExtExamples ==
  {<<>>,
   <<"Q", "1">>,
   <<"Explain", " ", "gravity", "\n">>,
   Unbalanced,
   Document("none", 1, <<Q(3, "plain"), Q(1, "plain"), Q(2, "plain"), Q(1, "solved")>>),
   Document("none", 1, <<Q(1, "plain"), Q(1, "plain"), Q(1, "solved")>>),
   Document("none", 1, <<Q(1, "short"), Q(2, "plain")>>),
   Document("none", 5, <<Q(1, "short")>>),
   Document("document", 1, <<Q(0, "plain"), Q(1, "plain")>>),
   Document("none", 5, <<Q(0, "plain")>>),
   Document("none", 1, <<Q(1, "candidates"), Q(2, "plain")>>),
   Document("none", 4, <<Q(1, "paper"), Q(2, "plain")>>),
   Document("none", 7, <<Q(1, "anyof"), Q(2, "duration"), Q(3, "plain")>>),
   Document("none", 7, <<Q(10, "plain"), Q(9, "plain")>>)}

\* the sanitizer when only the preview is used
SanIdle ==
  /\ latex = <<>>
  /\ sanitized = <<>>
  /\ resanitized = <<>>
  /\ warnings = <<>>
  /\ sanPc = "idle"

InitExtract ==
  /\ content \in GeneratedDocuments \cup StandardDocuments \cup ExtExamples
  /\ questionsContent = <<>>
  /\ patternIdx = 0
  /\ parsedQuestions = <<>>
  /\ accepted = <<>>
  /\ raised = FALSE
  /\ questions = <<>>
  /\ extPc = "start"
  /\ SanIdle
  /\ FmtIdle
  /\ HdlIdle
  /\ AuxIdle

\* line 167 and lines 28-52
Narrow ==
  /\ extPc = "start"
  /\ content # <<>>
  /\ questionsContent' = NarrowContent(content)
  /\ extPc' = "cascade"
  /\ UNCHANGED <<content, patternIdx, parsedQuestions, accepted, raised, questions, sanVars, fmtVars, hdlVars, auxVars>>

\* the for loop's state after strategy k gave r: the loop ends by the break
\* or after the last strategy, and the list is set then
AfterPattern(k, r) ==
  LET last == Len(r.parsed) > 0 \/ k = Len(patterns)
  IN /\ patternIdx' = k
     /\ parsedQuestions' = r.parsed
     /\ accepted' = Append(accepted, r.accepted)
     /\ raised' = r.raised
     /\ questions' = IF ~r.raised /\ ~r.hung /\ last
                     THEN uniqueQuestions(r.parsed) ELSE questions
     /\ extPc' = CASE r.raised -> "raised"
                   [] r.hung -> "hung"
                   [] last -> "done"
                   [] OTHER -> "cascade"
\* lines 96-164: the next strategy of the for loop
TryPattern ==
  /\ extPc = "cascade"
  /\ AfterPattern(patternIdx + 1,
                  WhileLoop(patternIdx + 1, questionsContent, 1,
                            [parsed |-> parsedQuestions, accepted |-> 0,
                             raised |-> FALSE, hung |-> FALSE]))
  /\ UNCHANGED <<content, questionsContent, sanVars, fmtVars, hdlVars, auxVars>>

NextExtract == Narrow \/ TryPattern

SpecExtract == InitExtract /\ [][NextExtract]_vars

(***************************************************************************)
(* The preview over several values of the content prop: the effect of      *)
(* lines 20-170 runs after every change of content; parseQuestions is       *)
(* synchronous, so the prop changes only between two runs.  The locals of   *)
(* parseQuestions are new in every run, the questions state is kept.        *)
(***************************************************************************)
PreviewContents ==
  {<<>>,
   <<"Explain", " ", "gravity", "\n">>,
   Document("none", 1, <<Q(1, "plain")>>),
   Document("none", 1, <<Q(1, "plain"), Q(2, "solved")>>),
   Document("none", 5, <<Q(2, "plain")>>),
   Document("document", 7, <<Q(3, "plain")>>),
   Document("none", 1, <<Q(1, "solved"), Q(2, "solved")>>),
   Document("none", 1, <<Q(1, "solved"), Q(2, "plain"), Q(3, "solved")>>)}

InitPreview ==
  /\ content \in PreviewContents
  /\ questionsContent = <<>>
  /\ patternIdx = 0
  /\ parsedQuestions = <<>>
  /\ accepted = <<>>
  /\ raised = FALSE
  /\ questions = <<>>
  /\ extPc = "start"
  /\ SanIdle
  /\ FmtIdle
  /\ HdlIdle
  /\ AuxIdle

\* line 167: with an empty content the effect does not call parseQuestions
SkipEmpty ==
  /\ extPc = "start"
  /\ content = <<>>
  /\ extPc' = "done"
  /\ UNCHANGED <<content, questionsContent, patternIdx, parsedQuestions, accepted,
                 raised, questions, sanVars, fmtVars, hdlVars, auxVars>>

\* line 170: the parent gives another content and the effect is due again
ChangeContent ==
  /\ extPc = "done"
  /\ \E c \in PreviewContents \ {content} : content' = c
  /\ questionsContent' = <<>>
  /\ patternIdx' = 0
  /\ parsedQuestions' = <<>>
  /\ accepted' = <<>>
  /\ extPc' = "start"
  /\ UNCHANGED <<raised, questions, sanVars, fmtVars, hdlVars, auxVars>>

NextPreview == Narrow \/ SkipEmpty \/ TryPattern \/ ChangeContent

SpecPreview == InitPreview /\ [][NextPreview]_vars

(***************************************************************************)
(* The solution buttons of the cards.  visibleSolutions is a state of the   *)
(* component of its own: no run of the effect sets it, and a click is      *)
(* handled between two runs.                                               *)
(***************************************************************************)
\* a toggle that forgets the set it is given
Only(prev, questionNumber) == {questionNumber}
\* lines 207-215: the updater given to setVisibleSolutions
Toggled(prev, questionNumber) ==
  IF questionNumber \in prev THEN prev \ {questionNumber}
  ELSE prev \cup {questionNumber}

\* line 353: the cards that have a button
Buttons(qs) == {k \in 1..Len(qs) : qs[k].solution # <<>>}
\* line 374: the cards whose solution panel is displayed
Panels(qs, visible) == {k \in Buttons(qs) : qs[k].number \in visible}

\* lines 206-216 and 355: a click on the button of a card
ToggleSolution ==
  /\ extPc \in {"start", "done"}
  /\ \E k \in Buttons(questions) :
       visibleSolutions' = Toggled(visibleSolutions, questions[k].number)
  /\ UNCHANGED <<sanVars, extVars, fmtVars, hdlVars, uplVars, cfgVars>>

NextSolutions == NextPreview \/ ToggleSolution

SpecSolutions == InitPreview /\ [][NextSolutions]_vars

(***************************************************************************)
(* The renderer as a state machine: the preview calls formatContent on the  *)
(* question text and on the solution text of a record (lines 370, 381).     *)
(***************************************************************************)
MaxParts == 3

FormatVocabulary ==
  {<<"a">>, <<" ">>, <<"$", "x", "$">>, <<"\\", "\\">>, <<"\\", "_">>,
   <<"\\", "&">>, <<"\\", "textbf", "{", "b", "}">>, <<"\\", "par", "tial">>}

HelloWorld ==
  <<"\\", "textbf", "{", "Hello", "}", " ", "\\", "&", " ",
    "\\", "textit", "{", "World", "}">>

\* the fragment of the specification's example, fragments with the commands
\* outside the table, with every kind of math span, with every escaped
\* reserved character, and fragments of block-level markup
FormatExamples ==
  {HelloWorld,
   <<"\\", "frac", "{", "a", "}", "{", "b", "}">>,
   <<"\\", "par", "box", "{", "3", "cm", "}", "{", "x", "}">>,
   <<"\\", "item", "sep">>,
   <<"\\", "foo", "{", "x", "}">>,
   <<"\\", "[", "x", "\\", "]">>,
   <<"\\", "(", "x", "\\", ")">>,
   <<"$", "$", "x", "$", "$", " ", "a">>,
   <<"$", "a", " ", "\\", "\\", " ", "b", "$">>,
   <<"a", "\\", "\\", "[", "2", "pt", "]", " ", "$", "x", "$">>,
   <<"$", "x", "$", " ", "\\", "%", " ", "\\", "#", " ", "\\", "_">>,
   <<"\\", "%", " ", "$", "x", "$", " ", "\\", "#">>,
   <<"a", "\n", "\n", "b">>,
   <<"a", "\\", "newline", " ", "a">>,
   <<"\\", "rule", "{", "1", "cm", "}", "{", "1", "pt", "}">>,
   <<"a", "\n", "\n", "\\", "rule", "{", "1", "cm", "}", "{", "1", "pt", "}",
     "\n", "\n", "b">>,
   <<"\\", "begin", "{", "itemize", "}", "\\", "item", " ", "a", "\n", "\n",
     "\\", "end", "{", "itemize", "}">>,
   <<"\\", "section", "{", "a", "}">>,
   <<"\\", "vspace", "{", "1", "cm", "}">>,
   <<"\\", "fbox", "{", "\\", "par", "box", "{", "3", "cm", "}", "{",
     "\\", "begin", "{", "itemize", "}", "\\", "item", " ", "a",
     "\\", "end", "{", "itemize", "}", "}", "}">>}

InitFormat ==
  /\ fragment \in PieceStrings(FormatVocabulary, MaxParts) \cup FormatExamples
  /\ formatted = <<>>
  /\ fmtPc = "input"
  /\ SanIdle
  /\ ExtIdle
  /\ HdlIdle
  /\ AuxIdle

\* __html: formatContent(q.question)
Format ==
  /\ fmtPc = "input"
  /\ formatted' = formatContent(fragment)
  /\ fmtPc' = "done"
  /\ UNCHANGED <<fragment, sanVars, extVars, hdlVars, auxVars>>

NextFormat == Format

SpecFormat == InitFormat /\ [][NextFormat]_vars

(***************************************************************************)
(* The handler as a state machine.  One step runs the handler up to its     *)
(* next await; pdflatex is the environment: a pass ends well, with an       *)
(* error or by the 30 s timeout, and leaves a PDF and a log or not.         *)
(***************************************************************************)
HandlerDocuments ==
  {<<>>,
   <<"a", "_", "b">>,
   Document("document", 1, <<Q(1, "solved")>>),
   Document("none", 2, <<Q(1, "solved"), Q(2, "plain")>>),
   Document("none", 4, <<Q(1, "solved")>>)}

LogHead == <<"This is pdfTeX", "\n">>
Filler(n) == [k \in 1..n |-> "x"]
Logs ==
  {LogHead \o <<"!", " ", "Missing", " ", "$", " ", "inserted", ".", "\n",
                "l.3 a", "\n">>,
   LogHead \o <<"!", " ">> \o UndefinedControlSequence
     \o <<".", "\n", "l.3 ", "\\", "foo", "\n">>,
   LogHead \o <<"!", " ">> \o UndefinedControlSequence \o <<".", "\n">>
     \o Filler(120),
   LogHead \o <<"!", " ", "Package", " ", "inputenc", " ", "Error", ":", "\n">>,
   LogHead \o <<"!", " ", "LaTeX", " ", "Error", ":", " ", "File not found.",
                "\n", "\n", "l.2", "\n", "l.3", "\n">>,
   LogHead \o <<"No pages of output.", "\n">>,
   LogHead \o <<"!", " ", "Emergency", " ", "stop", ".">> \o Filler(320),
   LogHead \o <<"!", " ", "Missing", " ", "$", " ", "inserted", ".", "\n",
                "!", " ">> \o UndefinedControlSequence \o <<".", "\n">>,
   LogHead \o <<"!", " ", "Missing", " ", "$", " ", "inserted", ".", "\n",
                "!", " ", "Package", " ", "amsmath", " ", "Error", ":", "\n">>}

InitHandler ==
  /\ latex \in HandlerDocuments
  /\ sanitized = <<>>
  /\ resanitized = <<>>
  /\ warnings = <<>>
  /\ sanPc = "idle"
  /\ method \in {"POST", "GET"}
  /\ includeSolutions \in BOOLEAN
  /\ processedLatex = <<>>
  /\ texFile = Absent
  /\ passes = <<>>
  /\ pdfFile = FALSE
  /\ logFile = Absent
  /\ errorMsg = <<>>
  /\ response = [status |-> 0, error |-> <<>>]
  /\ sent = 0
  /\ tempDir = "null"
  /\ dirExists = FALSE
  /\ hdlPc = "request"
  /\ ExtIdle
  /\ FmtIdle
  /\ AuxIdle

\* lines 126-180: the checks of the request, the sanitizer, the removal of
\* the solutions and mkdtempSync, up to the await of 'which pdflatex'; the
\* answer 400 is given inside the try, where tempDir is still null
Prepare ==
  /\ hdlPc = "request"
  /\ IF method # "POST"
       THEN /\ response' = [status |-> 405, error |-> <<"Method not allowed">>]
            /\ hdlPc' = "done"
            /\ UNCHANGED processedLatex
     ELSE IF latex = <<>>
       THEN /\ response' = [status |-> 400, error |-> <<"No LaTeX content provided">>]
            /\ hdlPc' = "done"
            /\ UNCHANGED processedLatex
     ELSE /\ processedLatex' =
               IF includeSolutions THEN sanitizeLatex(latex)
               ELSE ApplySteps(sanitizeLatex(latex), solutionSteps, 1)
          /\ hdlPc' = "which"
          /\ UNCHANGED response
  /\ sent' = IF hdlPc' = "done" THEN sent + 1 ELSE sent
  /\ tempDir' = IF hdlPc' = "which" THEN "path" ELSE tempDir
  /\ dirExists' = IF hdlPc' = "which" THEN TRUE ELSE dirExists
  /\ warnings' = IF method = "POST" /\ latex # <<>>
                   THEN warnings \o braceCheck(sanitizeLatex(latex))
                   ELSE warnings
  /\ UNCHANGED <<method, includeSolutions, texFile, passes, pdfFile, logFile,
                 errorMsg, latex, sanitized, resanitized, sanPc, extVars, fmtVars, auxVars>>

\* lines 179-196: without pdflatex the handler answers 500 and finally
\* removes the directory; with it the text is written to questions.tex and
\* the first pass starts
Which ==
  /\ hdlPc = "which"
  /\ \E installed \in BOOLEAN :
       IF installed
         THEN /\ texFile' = processedLatex
              /\ hdlPc' = "pass1"
              /\ UNCHANGED <<response, sent, dirExists>>
         ELSE /\ response' = [status |-> 500,
                              error |-> <<"PDF generation is not available.">>]
              /\ sent' = sent + 1
              /\ dirExists' = Finally(tempDir, dirExists)
              /\ hdlPc' = "done"
              /\ UNCHANGED texFile
  /\ UNCHANGED <<method, includeSolutions, processedLatex, passes, pdfFile,
                 logFile, errorMsg, tempDir, sanVars, extVars, fmtVars, auxVars>>

\* how execPromise ends for a pass: the promise resolves, or it rejects with
\* the exit code of pdflatex, with killed set after the 30 s of the timeout
\* option (lines 197, 208), or with the code ENOENT
PassOutcomes == {"ok", "error", "killed", "ENOENT"}

\* a handler that gives up after a first pass that failed
FirstPassOrStop ==
  /\ hdlPc = "pass1"
  /\ \E outcome \in PassOutcomes :
       /\ passes' = Append(passes, outcome)
       /\ hdlPc' = IF outcome = "ok" THEN "pass2" ELSE "done"
  /\ UNCHANGED <<method, includeSolutions, processedLatex, texFile, pdfFile,
                 logFile, errorMsg, response, sent, tempDir, dirExists,
                 sanVars, extVars, fmtVars, auxVars>>
\* lines 194-202: the first pass ends; its error is caught and logged.  The
\* files it leaves are written again by the second pass and read by the
\* handler only after that one, so they are set there.
FirstPass ==
  /\ hdlPc = "pass1"
  /\ \E outcome \in PassOutcomes :
       passes' = Append(passes, outcome)
  /\ hdlPc' = "pass2"
  /\ UNCHANGED <<method, includeSolutions, processedLatex, texFile, pdfFile,
                 logFile, errorMsg, response, sent, tempDir, dirExists,
                 sanVars, extVars, fmtVars, auxVars>>

\* lines 205-300: the second pass ends, its error is caught and logged like
\* that of the first (line 210), and the handler runs to its answer: the PDF
\* if there is one, else the message made from the log, thrown at line 257
\* and answered by the catches of lines 273 and 284; then finally
SecondPass ==
  /\ hdlPc = "pass2"
  /\ \E outcome \in PassOutcomes :
       passes' = Append(passes, outcome)
  /\ pdfFile' \in BOOLEAN
  /\ logFile' \in Logs \cup {Absent}
  /\ errorMsg' = IF pdfFile' THEN <<>>
                 ELSE IF logFile' = Absent THEN CompilationFailed
                 ELSE errorMessage(logFile')
  /\ response' = IF pdfFile' THEN [status |-> 200, error |-> <<>>]
                 ELSE Answer(Error(errorMsg'))
  /\ sent' = sent + 1
  /\ tempDir' = IF ~pdfFile' /\ Rethrown(Error(errorMsg'))
                  THEN Preserved(tempDir) ELSE tempDir
  /\ dirExists' = Finally(tempDir', dirExists)
  /\ hdlPc' = "done"
  /\ UNCHANGED <<method, includeSolutions, processedLatex, texFile, sanVars,
                 extVars, fmtVars, auxVars>>

NextHandler == Prepare \/ Which \/ FirstPass \/ SecondPass

SpecHandler == InitHandler /\ [][NextHandler]_vars

(***************************************************************************)
(* The upload handler as a state machine: one step from the request to the  *)
(* first await, then one step per await.  pdf-parse and the language model  *)
(* are the environment: a call returns a text or throws.                    *)
(***************************************************************************)
\* the texts that pdf-parse finds in a file
PdfTexts == {<<>>, <<" ", "\n">>, <<"a">>, <<"Q", ".", "1", " ", "a">>}
\* the messages of the errors that the awaited calls throw
Messages == {<<>>, <<"GEMINI_API_KEY is not configured">>, <<"Invalid PDF structure">>}
\* answers of the language model: bare LaTeX, LaTeX in a code block with and
\* without a word before it, a fence at the start or the end only, and an
\* answer without \documentclass
Answers ==
  {<<"\\", "documentclass", "{", "article", "}", "\n", "a">>,
   <<Fence, "latex", "\n", "\\", "documentclass", "{", "article", "}", "\n", Fence>>,
   <<"the", " ", "paper", ":", "\n", Fence, "\n", "\\", "documentclass", "\n", "a",
     "\n", Fence, "\n">>,
   <<Fence, "latex", " ", "\\", "documentclass", " ", "a">>,
   <<"\\", "documentclass", " ", "a", "\n", Fence, " ">>,
   <<Fence, "\n", "a", " ", "\\", "documentclass", Fence>>,
   <<" ", "a", " ">>,
   <<>>}

InitUpload ==
  /\ uploadMethod \in {"POST", "GET"}
  /\ files \in SUBSET {"file", "patternFile"}
  /\ uploadDir = {}
  /\ pdfText = <<>>
  /\ patternText = Undefined
  /\ latexContent = <<>>
  /\ uploadResponse = [status |-> 0, error |-> <<>>]
  /\ uploadPc = "request"
  /\ SanIdle
  /\ ExtIdle
  /\ FmtIdle
  /\ HdlIdle
  /\ VisIdle
  /\ CfgIdle

\* lines 343-406: the method check and form.parse, which stores the files of
\* the form in the uploads directory before it calls back; after an error
\* of the parser any of them may be there.  The callback answers 400 without
\* a content file and else goes to the await of extractTextFromPDF.  The
\* JSON fields of lines 390-403 are parsed inside their own try.
Receive ==
  /\ uploadPc = "request"
  /\ IF uploadMethod # "POST"
       THEN /\ uploadResponse' = [status |-> 405, error |-> <<"Method not allowed">>]
            /\ uploadPc' = "done"
            /\ UNCHANGED uploadDir
     ELSE \E err \in BOOLEAN :
       IF err
         THEN /\ uploadDir' \in SUBSET files
              /\ uploadResponse' = [status |-> 500,
                                    error |-> <<"Failed to parse form data">>]
              /\ uploadPc' = "done"
       ELSE IF "file" \notin files
         THEN /\ uploadDir' = files
              /\ uploadResponse' = [status |-> 400, error |-> <<"No file provided">>]
              /\ uploadPc' = "done"
       ELSE /\ uploadDir' = files
            /\ uploadPc' = "extract"
            /\ UNCHANGED uploadResponse
  /\ UNCHANGED <<uploadMethod, files, pdfText, patternText, latexContent,
                 sanVars, extVars, fmtVars, hdlVars,
                 visVars, cfgVars>>

\* lines 406-417 and 470-488: extractTextFromPDF(filePath) returns or throws
ExtractText ==
  /\ uploadPc = "extract"
  /\ \/ \E text \in PdfTexts :
          /\ pdfText' = text
          /\ IF trim(text) = <<>>
               THEN /\ uploadDir' = Unlinked(uploadDir, "file", PatternFilePath(files))
                    /\ uploadResponse' =
                         [status |-> 400,
                          error |-> <<"Could not extract text from PDF">>]
                    /\ uploadPc' = "done"
               ELSE /\ uploadPc' = IF PatternFilePath(files) # "null"
                                    THEN "pattern" ELSE "generate"
                    /\ UNCHANGED <<uploadDir, uploadResponse>>
     \/ \E message \in Messages :
          /\ uploadDir' = Unlinked(uploadDir, "file", PatternFilePath(files))
          /\ uploadResponse' = ProcessingError(message)
          /\ uploadPc' = "done"
          /\ UNCHANGED pdfText
  /\ UNCHANGED <<uploadMethod, files, patternText, latexContent,
                 sanVars, extVars, fmtVars, hdlVars,
                 visVars, cfgVars>>

\* lines 420-428: the text of the pattern file; an error is caught and logged
ExtractPattern ==
  /\ uploadPc = "pattern"
  /\ patternText' \in PdfTexts \cup {Undefined}
  /\ uploadPc' = "generate"
  /\ UNCHANGED <<uploadMethod, files, uploadDir, pdfText, latexContent,
                 uploadResponse, sanVars, extVars, fmtVars, hdlVars,
                 visVars, cfgVars>>

\* lines 431-488: generateQuestionsWithGemini returns or throws
Generate ==
  /\ uploadPc = "generate"
  /\ \/ \E answer \in Answers :
          /\ latexContent' = ExtractedLatex(answer)
          /\ uploadResponse' = [status |-> 200, error |-> <<>>]
     \/ \E message \in Messages :
          /\ uploadResponse' = ProcessingError(message)
          /\ UNCHANGED latexContent
  /\ uploadDir' = Unlinked(uploadDir, "file", PatternFilePath(files))
  /\ uploadPc' = "done"
  /\ UNCHANGED <<uploadMethod, files, pdfText, patternText,
                 sanVars, extVars, fmtVars, hdlVars,
                 visVars, cfgVars>>

NextUpload == Receive \/ ExtractText \/ ExtractPattern \/ Generate

SpecUpload == InitUpload /\ [][NextUpload]_vars

(***************************************************************************)
(* QuestionCustomizer as a state machine: the parent keeps the config and   *)
(* gives it back as the prop, a click calls one handler.  The clicks are    *)
(* on three of the type buttons and on two counters of each group; a count  *)
(* is raised up to MaxCount.                                               *)
(***************************************************************************)
MaxCount == 2
ClickedTypes == {QUESTION_TYPES[1], QUESTION_TYPES[2], QUESTION_TYPES[5]}
ClickedTypeKeys == {"mcq", "general"}
ClickedMarkKeys == {"2", "10"}
Deltas == {-1, 1}

InitCustomizer ==
  /\ config \in
       [questionTypes : {<<QUESTION_TYPES[1]>>,
                         <<QUESTION_TYPES[2], QUESTION_TYPES[1]>>},
        questionsByType : {{}, {[k \in TypeKeys |-> IF k = "mcq" THEN 1 ELSE 0]}},
        questionsByMarks : {{}}]
  /\ clicked = NoClick
  /\ SanIdle
  /\ ExtIdle
  /\ FmtIdle
  /\ HdlIdle
  /\ UplIdle
  /\ VisIdle

\* part_001 line 205: a click on a type button
ClickType ==
  /\ \E type \in ClickedTypes :
       /\ config' = handleQuestionTypeToggle(config, type)
       /\ clicked' = [handler |-> "toggle", key |-> type, delta |-> 0]
  /\ UNCHANGED <<sanVars, extVars, fmtVars, hdlVars, uplVars, visVars>>

\* lines 274 and 283: a click on - or + of a counter of the 1 mark questions
ClickTypeCount ==
  /\ \E type \in ClickedTypeKeys, delta \in Deltas :
       /\ delta > 0 => Current(config.questionsByType, TypeKeys)[type] < MaxCount
       /\ config' = handleQuestionTypeCountChange(config, type, delta)
       /\ clicked' = [handler |-> "typeCount", key |-> type, delta |-> delta]
  /\ UNCHANGED <<sanVars, extVars, fmtVars, hdlVars, uplVars, visVars>>

\* lines 312 and 321: a click on - or + of a counter of the questions by marks
ClickMarkCount ==
  /\ \E marks \in ClickedMarkKeys, delta \in Deltas :
       /\ delta > 0 => Current(config.questionsByMarks, MarkKeys)[marks] < MaxCount
       /\ config' = handleQuestionMarkCountChange(config, marks, delta)
       /\ clicked' = [handler |-> "markCount", key |-> marks, delta |-> delta]
  /\ UNCHANGED <<sanVars, extVars, fmtVars, hdlVars, uplVars, visVars>>

NextCustomizer == ClickType \/ ClickTypeCount \/ ClickMarkCount

SpecCustomizer == InitCustomizer /\ [][NextCustomizer]_vars

(***************************************************************************)
(* Claims about the sanitizer                                               *)
(***************************************************************************)
Range(s) == {s[k] : k \in 1..Len(s)}
Reserved == {"_", "&", "%", "#", "^"}
PlainText == {"a", "b", " ", "Name", ":"}
IsPlain(s) == Range(s) \subseteq PlainText

\* C1: sanitizeLatex is idempotent: sanitizing the sanitized text again
\* returns the sanitized text.
C1_Idempotent == sanPc = "resanitized" => resanitized = sanitized

\* the four kinds of protected span, each as a whole text
IsInlineMath(s) ==
  /\ Len(s) >= 3 /\ s[1] = "$" /\ s[Len(s)] = "$"
  /\ \A k \in 2..(Len(s) - 1) : s[k] # "$"
IsDisplayMath(s) ==
  \/ /\ Len(s) >= 5 /\ Sub(s, 1, 3) = <<"\\", "[">>
     /\ Sub(s, Len(s) - 1, Len(s) + 1) = <<"\\", "]">>
     /\ \A k \in 3..(Len(s) - 2) : s[k] \notin {"[", "]", "$"}
  \/ /\ Len(s) >= 5 /\ Sub(s, 1, 3) = <<"$", "$">>
     /\ Sub(s, Len(s) - 1, Len(s) + 1) = <<"$", "$">>
     /\ \A k \in 3..(Len(s) - 2) : s[k] # "$"
IsVerbatim(s) ==
  /\ Len(s) >= 5 /\ Sub(s, 1, 3) = <<"\\", "verb">>
  /\ s[3] \notin Letters /\ s[3] # "\n" /\ s[Len(s)] = s[3]
  /\ \A k \in 4..(Len(s) - 1) : s[k] \notin {s[3], "\n"}
IsCommentLine(s) ==
  /\ Len(s) >= 1 /\ s[1] = "%"
  /\ \A k \in 1..Len(s) : s[k] # "\n"
IsProtectedSpan(s) ==
  IsInlineMath(s) \/ IsDisplayMath(s) \/ IsVerbatim(s) \/ IsCommentLine(s)

\* C2: protected-span integrity: a text that is one protected span (an
\* inline-math, display-math, verbatim or comment-line span, whatever it
\* contains) comes out of sanitizeLatex exactly as it went in.
C2_ProtectedSpanKept ==
  (sanPc # "input" /\ IsProtectedSpan(latex)) => sanitized = latex

\* C3: in the sanitized text of an input without protected spans, every
\* underscore, ampersand, percent, hash and caret is preceded by a backslash
\* (or is gone, absorbed into a blank construct).
HasNoProtectedSpan(s) ==
  /\ "$" \notin Range(s) /\ "\\" \notin Range(s)
  /\ ~Exec(ReComment, s, 1).ok
C3_NoBareReserved ==
  (sanPc # "input" /\ HasNoProtectedSpan(latex)) =>
    \A k \in 1..Len(sanitized) :
      sanitized[k] \in Reserved => (k > 1 /\ sanitized[k - 1] = "\\")

\* C4: a run of two or more underscores between plain text is replaced by
\* exactly one blank construct and no underscore of the run is left: the
\* sanitized text is the text before the run, one construct, the text after.
IsBlank(s) ==
  /\ Len(s) = 10
  /\ Sub(s, 1, 7) = <<"\\", "underline", "{", "\\", "hspace", "{">>
  /\ Sub(s, 8, 11) = <<"cm", "}", "}">>
IsRun(s) == Len(s) >= 2 /\ Range(s) = {"_"}
C4_RunBecomesOneBlank ==
  sanPc # "input" =>
    \A i \in 1..(Len(latex) + 1), j \in 1..(Len(latex) + 1) :
      (/\ i < j
       /\ IsPlain(Sub(latex, 1, i))
       /\ IsRun(Sub(latex, i, j))
       /\ IsPlain(Sub(latex, j, Len(latex) + 1))) =>
        /\ Len(sanitized) = Len(latex) - (j - i) + 10
        /\ Sub(sanitized, 1, i) = Sub(latex, 1, i)
        /\ IsBlank(Sub(sanitized, i, i + 10))
        /\ Sub(sanitized, i + 10, Len(sanitized) + 1) = Sub(latex, j, Len(latex) + 1)

(***************************************************************************)
(* Claims about the extraction                                              *)
(***************************************************************************)
Numbers(qs) == [i \in 1..Len(qs) |-> qs[i].number]
NoneAccepted == \A k \in 1..Len(accepted) : accepted[k] = 0

\* C5: no core operation raises: the extraction returns a result for every
\* text, also an empty one and one with unbalanced braces or an unmatched
\* math delimiter; when no strategy has an accepted match the question list
\* is empty and the preview shows the raw text.
C5_NeverRaises ==
  /\ raised = FALSE
  /\ extPc \notin {"raised", "hung"}
  /\ (extPc = "done" /\ NoneAccepted) =>
       (questions = <<>> /\ Render(questions) = "raw")
  /\ content = <<>> => (questions = <<>> /\ Render(questions) = "raw")
C5_Witness ==
  /\ content = Unbalanced
  /\ extPc = "done"
  /\ patternIdx = Len(patterns)
  /\ NoneAccepted
  /\ Render(questions) = "raw"

\* C6: the question list has no two entries with the same number and is
\* strictly ascending by number; headers numbered 3, 1, 2, 1 give three
\* records numbered 1, 2, 3.
C6_StrictlyAscending ==
  \A i \in 1..Len(questions), j \in 1..Len(questions) :
    i < j => questions[i].number < questions[j].number
C6_Witness ==
  /\ extPc = "done"
  /\ Numbers(parsedQuestions) = <<3, 1, 2, 1>>
  /\ Numbers(questions) = <<1, 2, 3>>

\* C7: standard-form round trip: a document of N headers in the standard
\* form numbered 1..N, each with a body that passes the acceptance filter,
\* with or without a preceding \begin{document} and header block, gives
\* exactly N records numbered 1..N in order.
C7_StandardRoundTrip ==
  \A wrap \in Wraps, kinds \in SeqsUpTo(StandardBodies, MaxQuestions) \ {<<>>} :
    (content = Document(wrap, 1, Numbered(kinds)) /\ extPc \notin {"start", "cascade"}) =>
      (extPc = "done" /\ Numbers(questions) = [i \in 1..Len(kinds) |-> i])

\* C8: the cascade stops at the first strategy with at least one accepted
\* match: no strategy is tried after it and every record of the result is
\* a match of that strategy.
C8_StopsAtFirstAccepted ==
  /\ \A k \in 1..Len(accepted) : accepted[k] > 0 => k = Len(accepted)
  /\ extPc = "done" =>
       \A i \in 1..Len(questions) :
         /\ accepted[questions[i].pattern] > 0
         /\ \A k \in 1..(questions[i].pattern - 1) : accepted[k] = 0

\* C9: every record of the question list has a number of at least 1; a
\* header numbered 0 gives no record.
C9_PositiveNumbers ==
  \A i \in 1..Len(questions) : questions[i].number >= 1

\* C10: boilerplate rejection: no record, of whatever strategy, comes from
\* a match whose content span contains, in any letter case, "general
\* instructions", "instructions to candidates" or "examination paper".
BoilerplatePhrases ==
  {<<"general", " ", "instructions">>,
   <<"instructions", " ", "to", " ", "candidates">>,
   <<"examination", " ", "paper">>}
IsRejected(span) == \E w \in BoilerplatePhrases : includes(toLowerCase(span), w)
C10_BoilerplateRejected ==
  /\ \A i \in 1..Len(parsedQuestions) : ~IsRejected(parsedQuestions[i].content)
  /\ \A i \in 1..Len(questions) : ~IsRejected(questions[i].content)
C10_Witness ==
  /\ content = Document("none", 4, <<Q(1, "paper"), Q(2, "plain")>>)
  /\ extPc = "done"
  /\ patternIdx = 4
  /\ Numbers(questions) = <<2>>

\* C11: derived state is recomputed fresh: once the effect has run for the
\* current content, the displayed list is the list extracted from that
\* content, the empty list for an empty content; no list of an earlier
\* content stays displayed.
C11_FreshList ==
  extPc = "done" =>
    /\ questions = uniqueQuestions(parsedQuestions)
    /\ content = <<>> => questions = <<>>

\* a run of two or more escaped underscores
IsEscapedRun(s) ==
  /\ Len(s) >= 4 /\ Len(s) % 2 = 0
  /\ \A k \in 1..Len(s) : s[k] = (IF k % 2 = 1 THEN "\\" ELSE "_")

\* the number of underscores of a raw or escaped run
RunLength(s) == Cardinality({k \in 1..Len(s) : s[k] = "_"})

\* C23: the blank construct that sanitizeLatex emits for a run of n
\* underscores between plain text has the size min(0.3 n, 4) cm, whether the
\* run is raw or escaped and whatever follows the run.
C23_BlankSize ==
  sanPc # "input" =>
    \A i \in 1..(Len(latex) + 1), j \in 1..(Len(latex) + 1) :
      (/\ i < j
       /\ IsPlain(Sub(latex, 1, i))
       /\ IsRun(Sub(latex, i, j)) \/ IsEscapedRun(Sub(latex, i, j))
       /\ IsPlain(Sub(latex, j, Len(latex) + 1))) =>
        \A k \in 1..Len(sanitized) :
          IsBlank(Sub(sanitized, k, Min({k + 10, Len(sanitized) + 1}))) =>
            Sub(sanitized, k, k + 10)
              = Blank(Min({30 * RunLength(Sub(latex, i, j)), 400}))

\* C24: sanitizeLatex emits its brace diagnostic exactly when the number of
\* unescaped "{" of the returned text differs from the number of unescaped
\* "}", in either direction; the check leaves the returned text as it is.
C24_WarnsOnMismatch ==
  sanPc = "sanitized" =>
    /\ (warnings # <<>>) <=> (Braces(sanitized, "{") # Braces(sanitized, "}"))
    /\ sanitized = sanitizeLatex(latex)

(***************************************************************************)
(* Claims about the renderer                                                *)
(***************************************************************************)
InlineHelloWorld ==
  <<"<", "strong", ">", "Hello", "<", "/", "strong", ">", " ", "&", " ",
    "<", "em", ">", "World", "<", "/", "em", ">">>

\* C12 as stated: formatContent applied to "\textbf{Hello} \& \textit{World}"
\* returns "<strong>Hello</strong> & <em>World</em>" and nothing more.
C12_Example ==
  (fmtPc = "done" /\ fragment = HelloWorld) => formatted = InlineHelloWorld

\* C12 amended: formatContent applied to "\textbf{Hello} \& \textit{World}"
\* returns the inline markup "<strong>Hello</strong> & <em>World</em>" inside
\* one paragraph element, <p class="my-4"> ... </p>.
C12_ExampleInParagraph ==
  (fmtPc = "done" /\ fragment = HelloWorld) =>
    formatted = <<"<", "p", " class=\"my-4\"", ">">> \o InlineHelloWorld
                \o <<"<", "/", "p", ">">>

C12_Witness == fmtPc = "done" /\ fragment = HelloWorld /\ formatted # <<>>

\* the number of places of s where the text w stands
Occurrences(s, w) ==
  Cardinality({i \in 1..(Len(s) + 1 - Len(w)) : Sub(s, i, i + Len(w)) = w})

\* commands the chain of formatContent has no step for
UnsupportedCommands ==
  {<<"\\", "frac">>, <<"\\", "par", "tial">>, <<"\\", "par", "box">>,
   <<"\\", "item", "sep">>, <<"\\", "foo">>}

\* C13: a command that is not in the renderer's table (\frac, \partial,
\* \parbox, \itemsep, an unknown \foo) stands in the output of formatContent
\* as the same text, as often as in the fragment.
C13_UnsupportedKept ==
  fmtPc = "done" =>
    \A w \in UnsupportedCommands :
      Occurrences(formatted, w) = Occurrences(fragment, w)

\* the math delimiters of s from the k-th token on, in their order: every
\* "$", and "\" with a bracket or a parenthesis after it; a backslash with
\* anything else after it is an escape or a command
RECURSIVE MathDelimiters(_, _)
MathDelimiters(s, k) ==
  IF k > Len(s) THEN <<>>
  ELSE IF s[k] = "$" THEN <<"$">> \o MathDelimiters(s, k + 1)
  ELSE IF s[k] = "\\" /\ k < Len(s)
    THEN (IF s[k + 1] \in {"[", "]", "(", ")"} THEN <<s[k + 1]>> ELSE <<>>)
         \o MathDelimiters(s, k + 2)
  ELSE MathDelimiters(s, k + 1)

\* C14: formatContent passes math through: the math delimiters of the
\* fragment ($, $$, \[, \], \(, \)) stand in the output in the same number
\* and order, also when a line break or another supported command stands
\* before or inside the math span.
C14_DelimitersKept ==
  fmtPc = "done" => MathDelimiters(formatted, 1) = MathDelimiters(fragment, 1)

\* the k-th token of s stands in a math span: an odd number of "$" or an
\* opening \[ or \( without its closing delimiter stands before it
InMath(s, k) ==
  LET before == MathDelimiters(Sub(s, 1, k), 1)
      brackets == SelectSeq(before, LAMBDA d : d # "$")
  IN \/ Len(SelectSeq(before, LAMBDA d : d = "$")) % 2 = 1
     \/ brackets # <<>> /\ brackets[Len(brackets)] \in {"[", "("}

\* C15: every escaped reserved character (\_, \&, \%, \#) outside the math
\* spans of the fragment is output as the bare character, wherever it stands
\* relative to the spans: the output has no more escaped ones than the
\* fragment has inside its math spans.
C15_Unescaped ==
  fmtPc = "done" =>
    \A c \in {"_", "&", "%", "#"} :
      Occurrences(formatted, <<"\\", c>>)
        <= Cardinality({k \in 1..(Len(fragment) - 1) :
                         /\ fragment[k] = "\\"
                         /\ fragment[k + 1] = c
                         /\ InMath(fragment, k)})

\* C21: formatContent replaces each line-break form (\\, \\[length],
\* \newline) by exactly one <br/> and removes nothing else: the output has
\* as many <br/> as the fragment has line breaks, and the plain text "a" of
\* the fragment, also the text after a line break, stands in the output as
\* often as in the fragment.
C21_BreakOnly ==
  fmtPc = "done" =>
    /\ Occurrences(formatted, <<"<", "br", "/", ">">>)
         = Occurrences(fragment, <<"\\", "\\">>)
             + Occurrences(fragment, <<"\\", "newline">>)
    /\ Occurrences(formatted, <<"a">>) = Occurrences(fragment, <<"a">>)

\* the paragraphs from the k-th on that are not empty after trimming, each
\* wrapped unless it opens with a block-level tag
RECURSIVE NonEmptyParagraphs(_, _)
NonEmptyParagraphs(ps, k) ==
  IF k > Len(ps) THEN <<>>
  ELSE (IF trim(ps[k]) # <<>> THEN <<Wrapped(trim(ps[k]))>> ELSE <<>>)
       \o NonEmptyParagraphs(ps, k + 1)

\* C22: formatContent splits the converted fragment at blank lines and emits
\* every non-empty paragraph, wrapped in <p class="my-4"> unless it opens
\* with a block-level tag: no paragraph is dropped, also not a lone divider
\* of \rule or a lone closing list tag of \end{itemize}.
C22_EveryParagraph ==
  fmtPc = "done" =>
    formatted
      = join(NonEmptyParagraphs(
               split(ApplySteps(fragment, formatSteps, 1), <<"\n", "\n">>), 1),
             <<"\n">>)

(***************************************************************************)
(* Claims about the compile handler                                         *)
(***************************************************************************)
KnownDiagnostics ==
  {<<"Missing", " ", "$", " ", "inserted">>, UndefinedControlSequence,
   <<"!", " ", "Package">>}

\* the log has the known text w and no other known text
OnlyKnown(log, w) ==
  \A v \in KnownDiagnostics : includes(log, v) <=> v = w

\* both passes are over and left no PDF
NoPdf == hdlPc = "done" /\ Len(passes) = 2 /\ ~pdfFile

\* C16: when the compilation leaves no PDF the message is chosen by the known
\* text the log contains: "Missing $ inserted" gives the math-mode hint,
\* "Undefined control sequence" the invalid-command hint, "! Package" the
\* missing-package hint; a log with none of them gives a diagnostic of at most
\* 300 characters, no log the fixed text "LaTeX compilation failed.".
C16_HintByLog ==
  NoPdf =>
    IF logFile = Absent THEN errorMsg = CompilationFailed
    ELSE /\ OnlyKnown(logFile, <<"Missing", " ", "$", " ", "inserted">>)
              => errorMsg = MathHint
         /\ OnlyKnown(logFile, UndefinedControlSequence)
              => errorMsg = InvalidCommandHint
         /\ OnlyKnown(logFile, <<"!", " ", "Package">>)
              => errorMsg = PackageHint
         /\ (\A v \in KnownDiagnostics : ~includes(logFile, v))
              => length(errorMsg) <= MaxDiagnostic

\* with pdflatex available the compiler runs twice, one pass after the other,
\* the second also after a first that failed, and the handler looks for the
\* PDF and answers only after the second
TwoPasses ==
  /\ Len(passes) <= 2
  /\ (texFile # Absent /\ Len(passes) = 0) => hdlPc = "pass1"
  /\ (texFile # Absent /\ Len(passes) = 1) => hdlPc = "pass2"
  /\ (texFile # Absent /\ hdlPc = "done") => Len(passes) = 2
  /\ Len(passes) < 2 => ~pdfFile /\ errorMsg = <<>> /\ response.status # 200
  /\ Len(passes) > 0 => texFile # Absent

\* C17 as stated: the text written for the compiler is always the output of
\* sanitizeLatex, and with pdflatex available the handler runs the compiler
\* exactly twice in sequence, the second pass whether or not the first
\* failed, and checks for the PDF only after the second pass.
C17_SanitizedTwoPasses ==
  /\ texFile # Absent => texFile = sanitizeLatex(latex)
  /\ TwoPasses

\* C17 amended: the text written for the compiler is the output of
\* sanitizeLatex when the request includes the solutions, and that output
\* with the solution sections removed when includeSolutions is false; the
\* two passes are as stated.
C17_PreparedTwoPasses ==
  /\ (texFile # Absent /\ includeSolutions) => texFile = sanitizeLatex(latex)
  /\ (texFile # Absent /\ ~includeSolutions)
       => texFile = ApplySteps(sanitizeLatex(latex), solutionSteps, 1)
  /\ TwoPasses

C17_Witness ==
  /\ hdlPc = "done"
  /\ ~includeSolutions
  /\ texFile # Absent
  /\ texFile # sanitizeLatex(latex)
  /\ passes = <<"error", "ok">>
  /\ response.status = 200

\* C26: when a pdflatex pass was killed by its 30 s timeout the request is
\* answered with status 500 and "PDF compilation timed out", and when the
\* binary was missing at execution time with the "pdflatex is not installed"
\* error of line 276: never with the generic failure message or a success.
C26_TimeoutAnswered ==
  (hdlPc = "done" /\ Len(passes) = 2) =>
    /\ (\E k \in 1..2 : passes[k] = "killed") =>
         response = [status |-> 500, error |-> <<"PDF compilation timed out">>]
    /\ (\E k \in 1..2 : passes[k] = "ENOENT") /\ (\A k \in 1..2 : passes[k] # "killed")
         => response = [status |-> 500,
                        error |-> <<"PDF compilation not available.">>]

\* the handler got as far as mkdtempSync (line 176)
DirCreated == method = "POST" /\ latex # <<>> /\ hdlPc # "request"
\* the answer of the catch of line 284
FailedPath ==
  /\ response.status = 500
  /\ response.error # <<>>
  /\ response.error[1] = "PDF generation failed: "

IsSpansInPlainText(s) ==
  /\ "$" \in Range(s)
  /\ "\\" \notin Range(s)
  /\ Occurrences(s, <<"$">>) % 2 = 0
  /\ \A k \in 1..Len(s) :
       Occurrences(Sub(s, 1, k), <<"$">>) % 2 = 0 =>
         IF s[k] = "$" THEN s[k + 1] # "$"
         ELSE s[k] \in PlainText \cup Digits \cup {"MATHBLOCK"}

\* C18: the restoration puts every protected span back as it was and where
\* it was, for any number of spans, whatever stands next to a placeholder,
\* whatever the span contains, also when the input holds placeholder-like
\* text: a text of math spans in plain text comes out unchanged.
C18_SpansRestored ==
  (sanPc # "input" /\ IsSpansInPlainText(latex)) => sanitized = latex

(***************************************************************************)
(* Claims about the records of the extraction                               *)
(***************************************************************************)
RECURSIVE Sum(_)
Sum(ns) == IF ns = <<>> THEN 0 ELSE Head(ns) + Sum(Tail(ns))

\* the record r is its content span split at the first place where the
\* separator of its strategy stands, or the whole span when the span has no
\* separator word
IsSplitAtSeparator(r) ==
  LET sep == Separator(r.pattern)
      i == IndexOf(r.content, sep, 1)
  IN /\ i # 0 =>
          /\ r.question = trim(Sub(r.content, 1, i))
          /\ r.solution = trim(Sub(r.content, i + Len(sep), Len(r.content) + 1))
     /\ Range(r.content) \cap {"Solution", "solution", "Ans", "ans"} = {} =>
          /\ r.question = trim(r.content)
          /\ r.solution = <<>>

\* C19: for each accepted match the record has the trimmed text before the
\* solution separator as question and the trimmed text after it as solution,
\* or the whole trimmed span and an empty solution when there is no
\* separator; every accepted match yields one record.
C19_SplitRecords ==
  (extPc = "done" /\ ~raised) =>
    /\ \A i \in 1..Len(parsedQuestions) : IsSplitAtSeparator(parsedQuestions[i])
    /\ Len(parsedQuestions) = Sum(accepted)

\* C20: one fixed policy for duplicates: of the records of the chosen
\* strategy that carry the same number, the list keeps the one of the last
\* match in document order, however many there are.
C20_LastSeenWins ==
  extPc = "done" =>
    \A i \in 1..Len(questions) :
      questions[i] =
        parsedQuestions[Max({k \in 1..Len(parsedQuestions) :
                               parsedQuestions[k].number = questions[i].number})]

\* three records numbered 1, the last unlike the two before it, and the
\* list holds the last
C20_Witness ==
  /\ extPc = "done"
  /\ Numbers(parsedQuestions) = <<1, 1, 1>>
  /\ parsedQuestions[3] # parsedQuestions[1]
  /\ parsedQuestions[3] # parsedQuestions[2]
  /\ questions = <<parsedQuestions[3]>>

(***************************************************************************)
(* Termination of the extraction                                            *)
(***************************************************************************)
\* the steps that parseQuestions has before it at most: the narrowing, the
\* strategies not yet tried and the end of the for loop
Remaining ==
  CASE extPc = "start" -> 9
    [] extPc = "cascade" -> 8 - patternIdx
    [] OTHER -> 0

\* C25: the extraction terminates for every text: the strategies are tried
\* one after the other in the order of the cascade, at most the seven of
\* them and none twice; no strategy meets an empty match, so a strategy has
\* at most as many accepted matches as the text has characters; the
\* extraction is at its end or has a next strategy to try, and every step
\* brings it nearer to its end.
C25_Terminates ==
  /\ [](/\ patternIdx \in 0..7
        /\ Len(accepted) = patternIdx
        /\ extPc \in {"start", "cascade", "done"}
        /\ extPc = "cascade" => patternIdx < 7
        /\ \A k \in 1..Len(accepted) : accepted[k] <= Len(questionsContent))
  /\ [][/\ patternIdx' \in {patternIdx, patternIdx + 1}
        /\ Remaining' < Remaining]_vars
C25_Witness ==
  /\ extPc = "done"
  /\ patternIdx = 7
  /\ accepted[7] = 2
  /\ \A k \in 1..6 : accepted[k] = 0

(***************************************************************************)
(* Claims about the upload handler                                          *)
(***************************************************************************)
\* the form was parsed and the answer is sent
AnsweredAfterParse ==
  /\ uploadPc = "done"
  /\ uploadResponse.status \in {200, 400, 500}
  /\ uploadResponse.error # <<"Failed to parse form data">>

\* C28: whenever the upload handler answers after the form was parsed (200,
\* 400 or 500), neither the content file nor the pattern file of the request
\* is left in the uploads directory, whichever of the two files the form
\* held: the content file only, both, or the pattern file only.
C28_UploadsRemoved == AnsweredAfterParse => uploadDir = {}

(***************************************************************************)
(* Claims about the solution buttons                                       *)
(***************************************************************************)
\* the numbers whose membership differs between two visible sets
Flipped(before, after) == (before \ after) \cup (after \ before)

\* C29: a step that changes the visible set is a toggle of the number n of a
\* listed question that has a solution: n enters the set when it was absent
\* and leaves it when it was present, the membership of every other number
\* is as before, and the question list is as before; and in every state a
\* card displays its solution panel only if its solution text is not empty
\* and its number is in the visible set.
C29_ToggleFrame ==
  /\ [](\A k \in 1..Len(questions) :
          k \in Panels(questions, visibleSolutions)
            => /\ questions[k].solution # <<>>
               /\ questions[k].number \in visibleSolutions)
  /\ [][visibleSolutions' # visibleSolutions
          => /\ \E k \in 1..Len(questions) :
                  /\ questions[k].solution # <<>>
                  /\ Flipped(visibleSolutions, visibleSolutions')
                       = {questions[k].number}
             /\ questions' = questions]_vars
\* two solutions were shown and the first is hidden again: the panel of
\* question 3 is displayed, the one of question 1 is not, question 2 has none
C29_Witness ==
  /\ extPc = "done"
  /\ Len(questions) = 3
  /\ Buttons(questions) = {1, 3}
  /\ visibleSolutions = {3}
  /\ Panels(questions, visibleSolutions) = {3}

(***************************************************************************)
(* Claims about QuestionCustomizer                                         *)
(***************************************************************************)
\* the counts of a group that is defined are not negative
NonNegative(field, keys) == \A counts \in field : \A k \in keys : counts[k] >= 0

\* C30: from a configuration with at least one selected question type, the
\* selection is never empty after any sequence of clicks on the type
\* buttons and the counters, a click on the button of the only selected
\* type leaves the configuration as it is, and no count of the questions
\* by type or by marks is ever negative.
C30_SelectionAndCounts ==
  /\ [](/\ config.questionTypes # <<>>
        /\ NonNegative(config.questionsByType, TypeKeys)
        /\ NonNegative(config.questionsByMarks, MarkKeys))
  /\ [][clicked'.handler = "toggle" /\ config.questionTypes = <<clicked'.key>>
          => config' = config]_vars
\* the button of the only selected type was clicked, after a click on - of
\* a counter at 0 and the same on a counter by marks
C30_Witness ==
  /\ clicked.handler = "toggle"
  /\ config.questionTypes = <<clicked.key>>
  /\ config.questionsByType = {[k \in TypeKeys |-> 0]}
  /\ config.questionsByMarks = {[k \in MarkKeys |-> 0]}

====
